---- MODULE Spec2Model ----
(***************************************************************************)
(* SonicWave: the batch conversion pipeline of assets/audio-process.js,    *)
(* assets/ffmpeg-utils.js, assets/file-handler.js and assets/app.js, run   *)
(* against one shared ffmpeg.wasm engine.                                  *)
(*                                                                         *)
(* Strings.  A JavaScript string is modelled by its tokenisation: the      *)
(* sequence of its '.' characters and of its maximal dot-free runs, so     *)
(* 'Song.MP3' is <<"Song", ".", "MP3">> and '' is <<>>.  Concatenation is  *)
(* \o, substring/lastIndexOf work on tokens, toLowerCase maps every token. *)
(***************************************************************************)
EXTENDS Integers, Sequences, FiniteSets, TLC

VARIABLES
    fs,      \* engine workspace (MEMFS): buffer name -> id of the job that wrote it
    sel,     \* the DOM selectors outputFormat/outputChannels/outputSamplerate/outputBitrate (.value)
    procs,   \* one record per asynchronous invocation (call frames of the async functions)
    jobSeq,  \* number of jobs (calls of a job function) started so far
    jobLog,  \* per started job: the engine keys it uses and whether it has settled
    built,   \* command-builder harness: the inputs and the vector built from them
    logEl,   \* logEl.innerText, the log shared by the page and the engine callback
    extracted,  \* extractor harness: a log text and the Metadata parsed from it
    app,     \* the page: engine load state, registered handlers, status messages,
             \* loading indicator, download area, what the user did so far
    cleanup  \* the call frame of cleanupFFmpeg

vars == <<fs, sel, procs, jobSeq, jobLog, built, logEl, extracted, app, cleanup>>

----------------------------------------------------------------------------
(* Strings *)

Dot == "."
EmptyStr == <<>>
Str(t) == <<t>>

\* String.prototype.toLowerCase, on the tokens the model uses
LowerTok(t) ==
    CASE t = "MP3" -> "mp3"
      [] t = "WAV" -> "wav"
      [] t = "Song" -> "song"
      [] OTHER -> t
toLowerCase(s) == [k \in 1..Len(s) |-> LowerTok(s[k])]

\* String.prototype.lastIndexOf: 0-based index of the last occurrence, -1 if none
lastIndexOf(s, c) ==
    LET hits == {k \in 1..Len(s) : s[k] = c}
    IN  IF hits = {} THEN -1 ELSE (CHOOSE k \in hits : \A h \in hits : h <= k) - 1

\* String.prototype.substring(start) with a 0-based start
substring(s, start) == SubSeq(s, start + 1, Len(s))

\* file-handler.js getFileExtension
getFileExtension(filename) ==
    toLowerCase(substring(filename, lastIndexOf(filename, Dot) + 1))

\* a JavaScript value used as a condition: '' and undefined are falsy
Undefined == <<"undefined">>
Truthy(v) == v # EmptyStr /\ v # Undefined

----------------------------------------------------------------------------
(* The shared log and the metadata extractor *)

\* Log text is tokenised so that a maximal run of digits, dots and colons is one
\* token, and so is each literal the patterns look for.
IntToks == {"44100", "192", "1411", "1", "2", "3", "4"}
TimeToks == {"00:03:21.45"}

\* the longest suffix of a token that \d+ matches, '' when it does not end in a digit
DigitsSuffix(t) ==
    CASE t \in IntToks -> t
      [] t = "192.5" -> "5"
      [] t = "5.1" -> "1"
      [] t = "00:03:21.45" -> "45"
      [] OTHER -> ""
\* the leftmost-starting suffix of a token that \d+(\.\d+)? matches
NumberSuffix(t) ==
    CASE t \in IntToks -> t
      [] t \in {"192.5", "5.1"} -> t
      [] t = "00:03:21.45" -> "21.45"
      [] OTHER -> ""

\* String.prototype.match without the g flag: the leftmost match, 0 for null
FirstIndex(S) == IF S = {} THEN 0 ELSE CHOOSE k \in S : \A h \in S : k <= h

\* /Duration: ([0-9][0-9]:[0-9][0-9]:[0-9][0-9]\.[0-9]+)/
durationMatch(logs) ==
    FirstIndex({k \in 1..(Len(logs) - 1) : logs[k] = "Duration: " /\ logs[k + 1] \in TimeToks})
\* /(\d+) Hz/
sampleRateMatch(logs) ==
    FirstIndex({k \in 1..(Len(logs) - 1) : DigitsSuffix(logs[k]) # "" /\ logs[k + 1] = " Hz"})
\* /(mono|stereo|\d+ channels)/
channelsMatch(logs) ==
    FirstIndex({k \in 1..Len(logs) :
                   \/ logs[k] \in {"mono", "stereo"}
                   \/ k < Len(logs) /\ DigitsSuffix(logs[k]) # "" /\ logs[k + 1] = " channels"})
\* /(\d+(\.\d+)?) kbps/
bitrateMatch(logs) ==
    FirstIndex({k \in 1..(Len(logs) - 1) : NumberSuffix(logs[k]) # "" /\ logs[k + 1] = " kbps"})

\* the default of every field, a two-character CJK literal meaning 'unknown'
Unknown == Str("unknown")
Fields == {"duration", "sampleRate", "channels", "bitrate"}

\* parseMetadata reading durationMatch[1] without testing durationMatch: a TypeError
\* on a text without a duration
parseMetadataUnguarded(logs) ==
    IF durationMatch(logs) = 0
    THEN [thrown |-> Str("TypeError")]
    ELSE [duration |-> Str(logs[durationMatch(logs) + 1]),
          sampleRate |-> IF sampleRateMatch(logs) # 0
                         THEN <<DigitsSuffix(logs[sampleRateMatch(logs)]), " Hz">> ELSE Unknown,
          channels |-> Unknown, bitrate |-> Unknown]

\* parseMetadata returning at the first field it cannot find
parseMetadataChained(logs) ==
    LET d == durationMatch(logs)
        r == sampleRateMatch(logs)
        c == channelsMatch(logs)
        b == bitrateMatch(logs)
        none == [f \in Fields |-> Unknown]
        m1 == [none EXCEPT !.duration = Str(logs[d + 1])]
        m2 == [m1 EXCEPT !.sampleRate = <<DigitsSuffix(logs[r]), " Hz">>]
        m3 == [m2 EXCEPT !.channels = IF logs[c] \in {"mono", "stereo"} THEN Str(logs[c])
                                      ELSE <<DigitsSuffix(logs[c]), " channels">>]
    IN  IF d = 0 THEN none
        ELSE IF r = 0 THEN m1
        ELSE IF c = 0 THEN m2
        ELSE IF b = 0 THEN m3
        ELSE [m3 EXCEPT !.bitrate = <<NumberSuffix(logs[b]), " kbps">>]

\* file-handler.js parseMetadata
parseMetadata(logs) ==
    LET d == durationMatch(logs)
        r == sampleRateMatch(logs)
        c == channelsMatch(logs)
        b == bitrateMatch(logs)
    IN  [duration |-> IF d # 0 THEN Str(logs[d + 1]) ELSE Unknown,
         sampleRate |-> IF r # 0 THEN <<DigitsSuffix(logs[r]), " Hz">> ELSE Unknown,
         channels |-> IF c = 0 THEN Unknown
                      ELSE IF logs[c] \in {"mono", "stereo"} THEN Str(logs[c])
                      ELSE <<DigitsSuffix(logs[c]), " channels">>,
         bitrate |-> IF b # 0 THEN <<NumberSuffix(logs[b]), " kbps">> ELSE Unknown]

\* ffmpeg-utils.js parseMetadata, the same text as the one of file-handler.js
ffmpegUtilsParseMetadata(logs) ==
    LET d == durationMatch(logs)
        r == sampleRateMatch(logs)
        c == channelsMatch(logs)
        b == bitrateMatch(logs)
    IN  [duration |-> IF d # 0 THEN Str(logs[d + 1]) ELSE Unknown,
         sampleRate |-> IF r # 0 THEN <<DigitsSuffix(logs[r]), " Hz">> ELSE Unknown,
         channels |-> IF c = 0 THEN Unknown
                      ELSE IF logs[c] \in {"mono", "stereo"} THEN Str(logs[c])
                      ELSE <<DigitsSuffix(logs[c]), " channels">>,
         bitrate |-> IF b # 0 THEN <<NumberSuffix(logs[b]), " kbps">> ELSE Unknown]

\* log(text): the page appends the text and a line break to logEl
log(innerText, text) == innerText \o text \o <<"\n">>

\* the tokens that hold a word as a substring without being the word
TokenIncludes(t, word) ==
    \/ t = word
    \/ <<t, word>> \in {<<"I/O error", "error">>, <<"Outputting", "Output">>,
                        <<"warnings", "warning">>, <<"Inputs", "Input">>}

\* String.prototype.includes: the word is a token of the message or inside one
includes(message, word) == \E k \in 1..Len(message) : TokenIncludes(message[k], word)

\* a callback that records every engine message
logCallbackUnfiltered(innerText, message) == log(innerText, <<"FFmpeg: ">> \o message)
\* ffmpeg-utils.js loadFFmpeg: the log callback handed to createFFmpeg
logCallback(innerText, message) ==
    IF \/ includes(message, "error") \/ includes(message, "warning")
       \/ includes(message, "Output") \/ includes(message, "Input")
    THEN log(innerText, <<"FFmpeg: ">> \o message)
    ELSE innerText

\* the callback applied to the messages of one exec, in order
RECURSIVE logMessages(_, _)
logMessages(innerText, messages) ==
    IF messages = <<>> THEN innerText
    ELSE logMessages(logCallback(innerText, Head(messages)), Tail(messages))

\* a small number in a template literal
Decimal(n) == CASE n = 1 -> "1" [] n = 2 -> "2" [] n = 3 -> "3" [] OTHER -> "4"

\* logEl.innerText once loadFFmpeg has returned (lines 13, 30 and 33)
LoadedLog ==
    log(log(log(<<>>, Str("Loading FFmpeg...")), Str("Loading FFmpeg core...")),
        <<"FFmpeg loaded, version: ", "0.12">>)

\* what ffmpeg prints about an input: the channel layout it guessed (wav only), the
\* container, the duration line and the stream line
GuessLine(layout) == <<"Guessed Channel Layout for ", "Input", " Stream #0.0 : ", layout>>
InputLine(name) == <<"Input", " #0, from '">> \o name \o <<"':">>
DurationLine == <<"  ", "Duration: ", "00:03:21.45", ", start: 0.000000, bitrate: ", "1411", " kb/s">>
StreamLine(layout) == <<"    Stream #0:0: Audio: pcm_s16le, ", "44100", " Hz", ", ", layout, ", s16">>
OutputLine(name) == <<"Output", " #0, to '">> \o name \o <<"':">>

\* the content of the files: both hold PCM audio without a channel layout, the file
\* whose name starts with 'a' in mono and the other one in stereo
Layout(file) == IF file[1] = "a" THEN "mono" ELSE "stereo"

\* the messages of exec(['-i', name]) on the content of file
ProbeMessages(name, file) ==
    <<GuessLine(Layout(file)), InputLine(name), DurationLine, StreamLine(Layout(file))>>
\* the messages of a conversion of file
ConvertMessages(input, file, output) ==
    <<GuessLine(Layout(file)), InputLine(input), DurationLine, StreamLine(Layout(file)),
      OutputLine(output)>>

----------------------------------------------------------------------------
(* Format catalog *)

FormatIds == {"mp3", "wav", "m4a", "aac", "ogg", "flac"}

\* formatConfig (defined in index.html): id -> {ext, codec, supportsBitrate}
formatConfig ==
    [id \in FormatIds |->
        [ext |-> Str(id),
         codec |-> CASE id = "mp3"  -> Str("libmp3lame")
                     [] id = "wav"  -> Str("pcm_s16le")
                     [] id = "m4a"  -> Str("aac")
                     [] id = "aac"  -> Str("aac")
                     [] id = "ogg"  -> Str("libvorbis")
                     [] id = "flac" -> Str("flac"),
         supportsBitrate |-> id \notin {"wav", "flac"}]]

\* formatConfig[key] is defined exactly for the registered keys
Registered(key) == Len(key) = 1 /\ key[1] \in FormatIds

----------------------------------------------------------------------------
(* Command builders *)

InputKeyNoPrefix(file) == <<"output", Dot>> \o getFileExtension(file)
InputKey(file) == <<"input", Dot>> \o getFileExtension(file)
OutputKey(profile) == <<"output", Dot>> \o profile.ext

\* audio-process.js compressSingleFile, lines 21-46: format is the profile read at
\* entry, fmtNow/ac/ar/ba are the selector values read while building
compressSingleFileCommand(inputName, format, outputName, fmtNow, ac, ar, ba) ==
    <<Str("-i"), inputName>>
    \o (IF Truthy(ac) THEN <<Str("-ac"), ac>> ELSE <<>>)
    \o (IF Truthy(ar) THEN <<Str("-ar"), ar>> ELSE <<>>)
    \o <<Str("-acodec"), format.codec>>
    \o (IF Truthy(ba) /\ format.supportsBitrate THEN <<Str("-b:a"), ba>> ELSE <<>>)
    \o (IF fmtNow = Str("flac") THEN <<Str("-compression_level"), Str("5")>>
        ELSE IF fmtNow = Str("aac") THEN <<Str("-strict"), Str("experimental")>>
        ELSE <<>>)
    \o <<outputName>>

\* convertAudioFormat with the supportsBitrate test of line 158 left out
convertAudioFormatCommandAnyBitrate(inputName, config, outputName, targetFormat, options) ==
    <<Str("-i"), inputName>>
    \o (IF Truthy(options.channels) THEN <<Str("-ac"), options.channels>> ELSE <<>>)
    \o (IF Truthy(options.samplerate) THEN <<Str("-ar"), options.samplerate>> ELSE <<>>)
    \o (IF Truthy(options.bitrate) THEN <<Str("-b:a"), options.bitrate>> ELSE <<>>)
    \o <<Str("-acodec"), config.codec>>
    \o (IF targetFormat = Str("flac")
        THEN <<Str("-compression_level"),
               IF Truthy(options.compressionLevel) THEN options.compressionLevel ELSE Str("5")>>
        ELSE IF targetFormat = Str("aac") THEN <<Str("-strict"), Str("experimental")>>
        ELSE <<>>)
    \o <<outputName>>

\* audio-process.js convertAudioFormat, lines 153-172
convertAudioFormatCommand(inputName, config, outputName, targetFormat, options) ==
    <<Str("-i"), inputName>>
    \o (IF Truthy(options.channels) THEN <<Str("-ac"), options.channels>> ELSE <<>>)
    \o (IF Truthy(options.samplerate) THEN <<Str("-ar"), options.samplerate>> ELSE <<>>)
    \o (IF Truthy(options.bitrate) /\ config.supportsBitrate
        THEN <<Str("-b:a"), options.bitrate>> ELSE <<>>)
    \o <<Str("-acodec"), config.codec>>
    \o (IF targetFormat = Str("flac")
        THEN <<Str("-compression_level"),
               IF Truthy(options.compressionLevel) THEN options.compressionLevel ELSE Str("5")>>
        ELSE IF targetFormat = Str("aac") THEN <<Str("-strict"), Str("experimental")>>
        ELSE <<>>)
    \o <<outputName>>

\* ffmpeg-utils.js createFFmpegCommand
createFFmpegCommand(inputFile, options) ==
    <<Str("-i"), inputFile>>
    \o (IF Truthy(options.channels) THEN <<Str("-ac"), options.channels>> ELSE <<>>)
    \o (IF Truthy(options.samplerate) THEN <<Str("-ar"), options.samplerate>> ELSE <<>>)
    \o <<Str("-acodec"), IF Truthy(options.codec) THEN options.codec ELSE Str("aac")>>
    \o (IF Truthy(options.bitrate) /\ options.supportsBitrate
        THEN <<Str("-b:a"), options.bitrate>> ELSE <<>>)
    \o (IF options.format = Str("flac") THEN <<Str("-compression_level"), Str("5")>>
        ELSE IF options.format = Str("aac") \/ options.format = Str("m4a")
             THEN <<Str("-strict"), Str("experimental")>>
        ELSE <<>>)
    \o <<IF Truthy(options.outputFile) THEN options.outputFile ELSE <<"output", Dot, "mp3">>>>

----------------------------------------------------------------------------
(* Bounds and inputs *)

MaxFiles == 3            \* longest batch handed to compressMultipleFiles
MaxOverlapFiles == 1     \* longest batch of an invocation that overlaps another one
MaxRetriesBound == 2     \* largest maxRetries handed to compressSingleFileWithRetry
MaxOverlapRetries == 1   \* largest maxRetries of a call that overlaps another invocation
MaxChanges == 1          \* how often the user changes the selectors while an invocation runs
MaxUploads == 1          \* how often the user drops or picks files
MaxEntries == 3          \* entries of the workspace root when cleanupFFmpeg is called
DefaultMaxRetries == 2   \* compressSingleFileWithRetry(file, maxRetries = 2)
AppMaxRetries == 3       \* app.js: compressMultipleFiles(selectedFiles, {maxRetries: 3, ...})

\* the asynchronous invocations (two clicks, a conversion beside a probe, ...)
Procs == {1, 2}

\* two different files whose extensions agree after toLowerCase
PipelineFiles == {<<"a", Dot, "mp3">>, <<"b", Dot, "MP3">>}

RECURSIVE SeqsUpTo(_, _)
SeqsUpTo(S, n) ==
    IF n = 0 THEN {<<>>}
    ELSE LET shorter == SeqsUpTo(S, n - 1)
         IN  shorter \cup {Append(q, x) : q \in {t \in shorter : Len(t) = n - 1}, x \in S}

Batches == SeqsUpTo(PipelineFiles, MaxFiles)

\* selector states of the page: a registered format and an unregistered id
Selections ==
    {[format |-> Str(f), ac |-> EmptyStr, ar |-> EmptyStr, ba |-> Str("128k")] :
        f \in {"mp3", "xyz"}}

NoOptions == [channels |-> Undefined, samplerate |-> Undefined,
              bitrate |-> Undefined, compressionLevel |-> Undefined]
\* selector states of a page whose user changes them while an invocation runs
PageSelections ==
    Selections
    \cup {[format |-> Str("flac"), ac |-> EmptyStr, ar |-> EmptyStr, ba |-> Str("128k")],
          [format |-> Str("aac"), ac |-> Str("1"), ar |-> Str("44100"), ba |-> Str("64k")]}
NoSelection == [format |-> EmptyStr, ac |-> EmptyStr, ar |-> EmptyStr, ba |-> EmptyStr]
ConvertTargets == {Str("ogg"), Str("xyz")}
ConvertOptions == {[NoOptions EXCEPT !.bitrate = Str("128k")]}

----------------------------------------------------------------------------
(* Engine workspace: ffmpeg.writeFile / exec / readFile / deleteFile *)

Has(f, name) == name \in DOMAIN f
EngineWrite(f, name, jid) == [n \in DOMAIN f \cup {name} |-> IF n = name THEN jid ELSE f[n]]
EngineDelete(f, name) == [n \in DOMAIN f \ {name} |-> f[n]]

\* exec cannot open an input that is absent; otherwise it may succeed, or fail with
\* or without a partial output left behind
ExecOutcomes(f, input) == IF Has(f, input) THEN {"ok", "fail", "failpartial"} ELSE {"fail"}
\* readFile of an absent name throws; a present one may still fail inside the engine
ReadOutcomes(f, name) == IF Has(f, name) THEN {TRUE, FALSE} ELSE {FALSE}

----------------------------------------------------------------------------
(* Call frames *)

Idle ==
    [op |-> "idle", fn |-> "none", pc |-> "idle",
     file |-> EmptyStr, inputName |-> EmptyStr, outputName |-> EmptyStr,
     format |-> EmptyStr, options |-> NoOptions, command |-> <<>>,
     error |-> "none", result |-> EmptyStr,
     files |-> <<>>, i |-> 0, results |-> <<>>, errors |-> <<>>, batchOptions |-> 0,
     maxRetries |-> 0, attempt |-> 0,
     outcome |-> "none", value |-> EmptyStr,
     jid |-> 0, attempts |-> 0, fails |-> <<>>,
     prevLogLength |-> 0, metadata |-> [f \in Fields |-> EmptyStr], after |-> {},
     selected |-> NoSelection]

\* the metadata probes: ffmpeg.exec(['-i', inputName]) with no output
ProbeFns == {"parseAudioMetadata", "getMediaMetadata"}

\* file.name.replace(/\.[^/.]+$/, '')
baseName(name) ==
    IF Len(name) >= 2 /\ name[Len(name) - 1] = Dot /\ name[Len(name)] # Dot
    THEN SubSeq(name, 1, Len(name) - 2)
    ELSE name

\* A world is what a continuation of an async function may change besides the
\* engine: w.r the frame of invocation w.p, w.seq and w.log the job register.

\* a job function got past its synchronous prefix and awaits fetchFile/writeFile
StartJob(w, fn, file, key, options) ==
    LET jid == w.seq + 1
        inN == InputKey(file)
        outN == IF fn \in ProbeFns THEN EmptyStr ELSE OutputKey(formatConfig[key[1]])
    IN  [r |-> [w.r EXCEPT !.fn = fn, !.pc = "writeFile", !.file = file,
                           !.inputName = inN, !.outputName = outN, !.format = key,
                           !.options = options, !.command = <<>>, !.error = "none",
                           !.result = EmptyStr, !.jid = jid, !.attempts = @ + 1],
         seq |-> jid,
         p |-> w.p,
         logEl |-> w.logEl,
         log |-> Append(w.log, [proc |-> w.p, idx |-> w.r.i, fn |-> fn, inputName |-> inN,
                                outputName |-> outN, settled |-> FALSE,
                                calls |-> <<>>, error |-> "none", emitted |-> <<>>])]

\* an engine call of the running job settled: the job's record keeps the call and
\* whether it resolved (ok) or rejected
Called(w, call, ok) ==
    [w EXCEPT !.log[w.r.jid].calls = Append(@, [call |-> call, ok |-> ok])]

\* audio-process.js compressMultipleFiles, lines 110-132: the loop from index r.i up
\* to the next suspension.  compressSingleFile throws before its try when
\* formatConfig[outputFormat.value] is undefined (line 15): caught at line 120.
RECURSIVE compressMultipleFiles(_, _)

\* compressMultipleFiles walking the list from its end: files[length - 1 - i]
compressMultipleFilesFromEnd(w, s) ==
    IF ~(w.r.i < Len(w.r.files))
    THEN [w EXCEPT !.r.pc = "done", !.r.outcome = "returned"]
    ELSE LET file == w.r.files[Len(w.r.files) - w.r.i]
         IN  IF ~Registered(s.format)
             THEN compressMultipleFiles(
                     [w EXCEPT !.r.errors = Append(@, [idx |-> w.r.i, file |-> file,
                                                      error |-> "TypeError", attempts |-> 1]),
                               !.r.i = @ + 1], s)
             ELSE StartJob([w EXCEPT !.r.attempts = 0], "compressSingleFile", file,
                           s.format, NoOptions)

compressMultipleFiles(w, s) ==
    IF ~(w.r.i < Len(w.r.files))
    THEN [w EXCEPT !.r.pc = "done", !.r.outcome = "returned"]
    ELSE LET file == w.r.files[w.r.i + 1]
         IN  IF ~Registered(s.format)
             THEN compressMultipleFiles(
                     [w EXCEPT !.r.errors = Append(@, [idx |-> w.r.i, file |-> file,
                                                      error |-> "TypeError", attempts |-> 1]),
                               !.r.i = @ + 1], s)
             ELSE StartJob([w EXCEPT !.r.attempts = 0], "compressSingleFile", file,
                           s.format, NoOptions)

\* compressMultipleFiles whose catch block forgets errors.push
compressMultipleFilesResumeNoPush(w, s) ==
    LET r == w.r
        pushed ==
            IF r.error = "none"
            THEN [w EXCEPT !.r.results = Append(@, [idx |-> r.i, file |-> r.file,
                                                   result |-> r.result, attempts |-> r.attempts])]
            ELSE w
    IN  compressMultipleFiles([pushed EXCEPT !.r.i = @ + 1], s)

\* compressMultipleFiles without the try/catch around the awaited call
compressMultipleFilesResumeNoCatch(w, s) ==
    LET r == w.r
    IN  IF r.error = "none"
        THEN compressMultipleFiles(
                [w EXCEPT !.r.results = Append(@, [idx |-> r.i, file |-> r.file,
                                                  result |-> r.result, attempts |-> r.attempts]),
                          !.r.i = @ + 1], s)
        ELSE [w EXCEPT !.r.pc = "done", !.r.outcome = "thrown", !.r.value = Str(r.error)]

\* compressMultipleFiles, lines 113-126: the awaited compressSingleFile settled
compressMultipleFilesResume(w, s) ==
    LET r == w.r
        pushed ==
            IF r.error = "none"
            THEN [w EXCEPT !.r.results = Append(@, [idx |-> r.i, file |-> r.file,
                                                   result |-> r.result, attempts |-> r.attempts])]
            ELSE [w EXCEPT !.r.errors = Append(@, [idx |-> r.i, file |-> r.file,
                                                  error |-> r.error, attempts |-> r.attempts])]
    IN  compressMultipleFiles([pushed EXCEPT !.r.i = @ + 1], s)

\* the catch block with 'attempt <= maxRetries' for 'attempt < maxRetries'
compressSingleFileWithRetryCatchOffByOne(w) ==
    LET w1 == [w EXCEPT !.r.fails = Append(@, w.r.error)]
    IN  IF w.r.attempt <= w.r.maxRetries
        THEN [w1 EXCEPT !.r.pc = "delay",
                        !.logEl = log(@, <<"Attempt ", Decimal(w.r.attempt + 1),
                                           " failed, retrying...">>)]
        ELSE [w1 EXCEPT !.r.pc = "done", !.r.outcome = "thrown", !.r.value = Str(w.r.error)]

\* audio-process.js compressSingleFileWithRetry, lines 90-96: the catch block
compressSingleFileWithRetryCatch(w) ==
    LET w1 == [w EXCEPT !.r.fails = Append(@, w.r.error)]
    IN  IF w.r.attempt < w.r.maxRetries
        THEN [w1 EXCEPT !.r.pc = "delay",
                        !.logEl = log(@, <<"Attempt ", Decimal(w.r.attempt + 1),
                                           " failed, retrying...">>)]
        ELSE [w1 EXCEPT !.r.pc = "done", !.r.outcome = "thrown", !.r.value = Str(w.r.error)]

\* compressSingleFileWithRetry, lines 87-89 and 98-99: the loop test, then one
\* iteration calls compressSingleFile; falling out of the loop returns undefined
compressSingleFileWithRetry(w, s) ==
    IF ~(w.r.attempt <= w.r.maxRetries)
    THEN [w EXCEPT !.r.pc = "done", !.r.outcome = "returned", !.r.value = Undefined]
    ELSE IF ~Registered(s.format)
         THEN compressSingleFileWithRetryCatch(
                 [w EXCEPT !.r.error = "TypeError", !.r.attempts = @ + 1])
         ELSE StartJob(w, "compressSingleFile", w.r.file, s.format, NoOptions)

\* compressSingleFileWithRetry, line 89: the awaited compressSingleFile settled
\* a loop whose successful attempt does not return: it waits and tries again
compressSingleFileWithRetryResumeNoReturn(w) ==
    IF w.r.error = "none"
    THEN [w EXCEPT !.r.pc = "delay"]
    ELSE compressSingleFileWithRetryCatch(w)

compressSingleFileWithRetryResume(w) ==
    IF w.r.error = "none"
    THEN [w EXCEPT !.r.pc = "done", !.r.outcome = "returned", !.r.value = w.r.result]
    ELSE compressSingleFileWithRetryCatch(w)

\* a job function called directly settles its caller's promise
DirectResume(w) ==
    IF w.r.error = "none"
    THEN [w EXCEPT !.r.pc = "done", !.r.outcome = "returned", !.r.value = w.r.result]
    ELSE [w EXCEPT !.r.pc = "done", !.r.outcome = "thrown", !.r.value = Str(w.r.error)]

\* the job function returned or threw: its caller's continuation runs
Settle(w, s) ==
    LET w1 == [w EXCEPT !.log[w.r.jid].settled = TRUE, !.log[w.r.jid].error = w.r.error]
    IN  CASE w.r.op = "compressMultipleFiles" -> compressMultipleFilesResume(w1, s)
          [] w.r.op = "compressSingleFileWithRetry" -> compressSingleFileWithRetryResume(w1)
          [] OTHER -> DirectResume(w1)

\* the command a job builds once writeFile has resolved
BuildCommand(r, s) ==
    CASE r.fn = "compressSingleFile" ->
            compressSingleFileCommand(r.inputName, formatConfig[r.format[1]], r.outputName,
                                      s.format, s.ac, s.ar, s.ba)
      [] r.fn = "convertAudioFormat" ->
            convertAudioFormatCommand(r.inputName, formatConfig[r.format[1]], r.outputName,
                                      r.format, r.options)
      [] OTHER -> <<Str("-i"), r.inputName>>

\* the file name of the result object (lines 66-67 and 192-193)
ResultName(r) ==
    IF r.fn = "compressSingleFile"
    THEN baseName(r.file) \o <<"_converted", Dot>> \o formatConfig[r.format[1]].ext
    ELSE baseName(r.file) \o <<Dot>> \o formatConfig[r.format[1]].ext

----------------------------------------------------------------------------
(* The pipeline: one action per resumption of an async function *)

World(p) == [p |-> p, r |-> procs[p], seq |-> jobSeq, log |-> jobLog, logEl |-> logEl]
Commit(p, w) ==
    /\ procs' = [procs EXCEPT ![p] = w.r]
    /\ jobSeq' = w.seq
    /\ jobLog' = w.log
    /\ logEl' = w.logEl

\* the invocations that had finished when invocation p was called
Finished == {q \in Procs : procs[q].pc = "done"}

\* Exploration bound: a long invocation (a batch of more than MaxOverlapFiles files, a
\* job retried more than MaxOverlapRetries times) is explored running alone, as
\* invocation 1; a short one may be joined by a second invocation, which is a single
\* job (convertAudioFormat or a probe; beside a retried job, convertAudioFormat).
\* Invocations are numbered in the order they start.
Short(r) ==
    \/ r.op \in {"convertAudioFormat", "parseAudioMetadata", "getMediaMetadata",
                  "compressSelectedFiles"}
    \/ r.op = "compressMultipleFiles" /\ Len(r.files) <= MaxOverlapFiles
    \/ r.op = "compressSingleFileWithRetry" /\ r.maxRetries <= MaxOverlapRetries
NoRetryCall == \A q \in Procs : procs[q].op # "compressSingleFileWithRetry"
MayStart(p, short) ==
    /\ procs[p].op = "idle"
    /\ \A q \in Procs : q < p => procs[q].op # "idle"
    /\ \A q \in Procs \ {p} : procs[q].op # "idle" => short /\ Short(procs[q])

\* retry counts of a call: the ones a caller passes, and the default of an omitted argument
RetryCounts == (0..MaxRetriesBound) \cup {DefaultMaxRetries}

\* app.js line 75: compressMultipleFiles(selectedFiles, {..., maxRetries: 3, ...})
CallCompressMultipleFiles(p) ==
    /\ MayStart(p, FALSE)
    /\ \E files \in Batches :
          Commit(p, compressMultipleFiles(
                    [World(p) EXCEPT !.r.op = "compressMultipleFiles", !.r.files = files,
                                     !.r.i = 0, !.r.batchOptions = AppMaxRetries,
                                     !.r.selected = sel], sel))
    /\ UNCHANGED <<fs, sel, built, extracted, app, cleanup>>

CallCompressSingleFileWithRetry(p) ==
    /\ MayStart(p, FALSE)
    /\ \E file \in PipelineFiles, maxRetries \in RetryCounts :
          Commit(p, compressSingleFileWithRetry(
                    [World(p) EXCEPT !.r.op = "compressSingleFileWithRetry", !.r.file = file,
                                     !.r.maxRetries = maxRetries, !.r.attempt = 0], sel))
    /\ UNCHANGED <<fs, sel, built, extracted, app, cleanup>>

\* audio-process.js convertAudioFormat, lines 142-150: config.ext of an unregistered
\* target throws before the try
CallConvertAudioFormat(p) ==
    /\ MayStart(p, TRUE)
    /\ \E file \in PipelineFiles, targetFormat \in ConvertTargets, options \in ConvertOptions :
          LET w == [World(p) EXCEPT !.r.op = "convertAudioFormat", !.r.file = file]
          IN  IF ~Registered(targetFormat)
              THEN Commit(p, DirectResume([w EXCEPT !.r.error = "TypeError"]))
              ELSE Commit(p, StartJob(w, "convertAudioFormat", file, targetFormat, options))
    /\ UNCHANGED <<fs, sel, built, extracted, app, cleanup>>

\* file-handler.js parseAudioMetadata, lines 279-285
CallParseAudioMetadata(p) ==
    /\ MayStart(p, TRUE)
    /\ NoRetryCall
    /\ \E file \in PipelineFiles :
          Commit(p, StartJob([World(p) EXCEPT !.r.op = "parseAudioMetadata",
                                              !.r.after = Finished],
                             "parseAudioMetadata", file, EmptyStr, NoOptions))
    /\ UNCHANGED <<fs, sel, built, extracted, app, cleanup>>

\* ffmpeg-utils.js getMediaMetadata, lines 200-207, on a loaded engine
CallGetMediaMetadata(p) ==
    /\ MayStart(p, TRUE)
    /\ NoRetryCall
    /\ \E file \in PipelineFiles :
          Commit(p, StartJob([World(p) EXCEPT !.r.op = "getMediaMetadata",
                                              !.r.after = Finished],
                             "getMediaMetadata", file, EmptyStr, NoOptions))
    /\ UNCHANGED <<fs, sel, built, extracted, app, cleanup>>

\* writeFile whose rejection is dropped: the job builds and runs its command anyway
WriteFileUnchecked(p) ==
    /\ procs[p].pc = "writeFile"
    /\ \E ok \in BOOLEAN :
          LET w == Called(World(p), "writeFile", ok)
          IN  /\ fs' = IF ok THEN EngineWrite(fs, w.r.inputName, w.r.jid) ELSE fs
              /\ Commit(p, [w EXCEPT !.r.command = BuildCommand(w.r, sel), !.r.pc = "exec"])
    /\ UNCHANGED <<sel, built, extracted, app, cleanup>>

\* await ffmpeg.writeFile(inputName, await fetchFile(file)) settles.  A rejection is
\* caught by parseAudioMetadata, which returns null (lines 312-315), and rethrown by
\* getMediaMetadata, past its cleanup (lines 221-224)
WriteFile(p) ==
    /\ procs[p].pc = "writeFile"
    /\ \E ok \in BOOLEAN :
          LET w == Called(World(p), "writeFile", ok)
          IN  IF ok
              THEN /\ fs' = EngineWrite(fs, w.r.inputName, w.r.jid)
                   /\ Commit(p, [w EXCEPT !.r.command = BuildCommand(w.r, sel), !.r.pc = "exec",
                                          !.r.prevLogLength =
                                              IF w.r.fn = "parseAudioMetadata"
                                              THEN Len(w.logEl) ELSE @])
              ELSE /\ fs' = fs
                   /\ IF w.r.fn = "parseAudioMetadata"
                      THEN Commit(p, Settle([w EXCEPT
                               !.r.result = Str("null"),
                               !.logEl = log(@, <<"Metadata parsing failed: ", "write">>)], sel))
                      ELSE IF w.r.fn = "getMediaMetadata"
                      THEN Commit(p, Settle([w EXCEPT
                               !.r.error = "write",
                               !.logEl = log(@, <<"Getting media metadata failed: ", "write">>)],
                               sel))
                      ELSE Commit(p, [w EXCEPT !.r.error = "write", !.r.pc = "deleteInput"])
    /\ UNCHANGED <<sel, built, extracted, app, cleanup>>

\* what the engine prints while it runs the command of frame r
ExecMessages(f, r) ==
    IF ~Has(f, r.command[2]) THEN {<<>>}
    ELSE IF r.fn \in ProbeFns THEN {ProbeMessages(r.command[2], r.file)}
    ELSE {ConvertMessages(r.command[2], r.file, r.command[Len(r.command)])}

\* the log callback runs for every message of the job's exec
Logged(w, messages) ==
    [w EXCEPT !.logEl = logMessages(@, messages),
              !.log[w.r.jid].emitted = logMessages(<<>>, messages)]

\* a probe without the inner try/catch around exec: the rejection reaches the outer
\* catch, parseAudioMetadata returns null and getMediaMetadata throws
ProbeAfterExecUncaught(w, outcome, s) ==
    IF outcome # "ok"
    THEN IF w.r.fn = "parseAudioMetadata"
         THEN Settle([w EXCEPT !.r.result = Str("null"),
                               !.logEl = log(@, <<"Metadata parsing failed: ", "exec">>)], s)
         ELSE Settle([w EXCEPT !.r.error = "exec",
                               !.logEl = log(@, <<"Getting media metadata failed: ", "exec">>)], s)
    ELSE [w EXCEPT !.r.result = Str("metadata"), !.r.pc = "deleteInput",
                   !.r.metadata = IF w.r.fn = "parseAudioMetadata"
                                  THEN parseMetadata(substring(w.logEl, w.r.prevLogLength))
                                  ELSE @]

\* file-handler.js parseAudioMetadata, lines 291-301, and ffmpeg-utils.js
\* getMediaMetadata, lines 210-217: the rejection of exec is dropped;
\* parseAudioMetadata parses the text after prevLogLength, then both delete the input
ProbeAfterExec(w, outcome, s) ==
    [w EXCEPT !.r.result = Str("metadata"), !.r.pc = "deleteInput",
              !.r.metadata = IF w.r.fn = "parseAudioMetadata"
                             THEN parseMetadata(substring(w.logEl, w.r.prevLogLength))
                             ELSE @]

\* await ffmpeg.exec(command) settles
Exec(p) ==
    /\ procs[p].pc = "exec"
    /\ LET r == procs[p]
           input == r.command[2]
           output == r.command[Len(r.command)]
           probe == r.fn \in ProbeFns
       IN  \E outcome \in ExecOutcomes(fs, input), messages \in ExecMessages(fs, r) :
              LET w == Logged(Called(World(p), "exec", outcome = "ok"), messages) IN
              /\ fs' = IF outcome \in {"ok", "failpartial"} /\ ~probe
                       THEN EngineWrite(fs, output, w.r.jid) ELSE fs
              /\ IF probe
                 THEN Commit(p, ProbeAfterExec(w, outcome, sel))
                 ELSE IF outcome = "ok"
                      THEN Commit(p, [w EXCEPT !.r.pc = "readFile"])
                      ELSE Commit(p, [w EXCEPT !.r.error = "exec", !.r.pc = "deleteInput"])
    /\ UNCHANGED <<sel, built, extracted, app, cleanup>>

\* await ffmpeg.readFile(outputName) settles
ReadFile(p) ==
    /\ procs[p].pc = "readFile"
    /\ \E ok \in ReadOutcomes(fs, procs[p].outputName) :
          LET w == Called(World(p), "readFile", ok)
          IN  IF ok
              THEN Commit(p, [w EXCEPT !.r.result = ResultName(w.r), !.r.pc = "deleteInput"])
              ELSE Commit(p, [w EXCEPT !.r.error = "read", !.r.pc = "deleteInput"])
    /\ UNCHANGED <<fs, sel, built, extracted, app, cleanup>>

\* ffmpeg-utils.js deleteFileFromFFmpeg: the error its caller sees when the engine's
\* deleteFile rejected (threw) or resolved
deleteFileFromFFmpeg(threw) == "none"

\* the cleanup with its try/catch left out: a rejected delete replaces the outcome
AfterDeleteInputUncaught(w, threw, s) ==
    IF threw
    THEN Settle([w EXCEPT !.r.error = "delete", !.r.result = EmptyStr], s)
    ELSE IF w.r.fn \in ProbeFns
         THEN Settle(w, s)
         ELSE [w EXCEPT !.r.pc = "deleteOutput"]

\* the cleanup after deleteFile(inputName): compressSingleFile and convertAudioFormat
\* go on to deleteFile(outputName) only when the first delete did not throw (lines
\* 73-76, 199-202); parseAudioMetadata returns either way (lines 304-310);
\* getMediaMetadata returns unless deleteFileFromFFmpeg threw (lines 216-220)
\* a parseAudioMetadata whose deleteFile is not wrapped: the outer catch returns null
AfterDeleteInputToOuterCatch(w, threw, s) ==
    IF w.r.fn = "parseAudioMetadata" /\ threw
    THEN Settle([w EXCEPT !.r.result = Str("null"),
                          !.logEl = log(@, <<"Metadata parsing failed: ", "delete">>)], s)
    ELSE IF w.r.fn \in ProbeFns \/ threw
         THEN Settle(w, s)
         ELSE [w EXCEPT !.r.pc = "deleteOutput"]

AfterDeleteInput(w, threw, s) ==
    IF w.r.fn = "getMediaMetadata"
    THEN LET thrown == deleteFileFromFFmpeg(threw)
         IN  IF thrown = "none"
             THEN Settle([w EXCEPT !.r.metadata = ffmpegUtilsParseMetadata(w.logEl)], s)
             ELSE Settle([w EXCEPT !.r.error = thrown, !.r.result = EmptyStr], s)
    ELSE IF w.r.fn = "parseAudioMetadata" \/ threw
         THEN Settle(w, s)
         ELSE [w EXCEPT !.r.pc = "deleteOutput"]

\* await ffmpeg.deleteFile(inputName) settles; deleting an absent name throws
DeleteInput(p) ==
    /\ procs[p].pc = "deleteInput"
    /\ LET threw == ~Has(fs, procs[p].inputName)
           w == Called(World(p), "deleteInput", ~threw)
       IN  /\ fs' = EngineDelete(fs, w.r.inputName)
           /\ Commit(p, AfterDeleteInput(w, threw, sel))
    /\ UNCHANGED <<sel, built, extracted, app, cleanup>>

\* await ffmpeg.deleteFile(outputName) settles
DeleteOutput(p) ==
    /\ procs[p].pc = "deleteOutput"
    /\ LET w == Called(World(p), "deleteOutput", Has(fs, procs[p].outputName))
       IN  /\ fs' = EngineDelete(fs, w.r.outputName)
           /\ Commit(p, Settle(w, sel))
    /\ UNCHANGED <<sel, built, extracted, app, cleanup>>

\* await new Promise(resolve => setTimeout(resolve, 1000)) settles, attempt++
RetryDelay(p) ==
    /\ procs[p].pc = "delay"
    /\ Commit(p, compressSingleFileWithRetry([World(p) EXCEPT !.r.attempt = @ + 1], sel))
    /\ UNCHANGED <<fs, sel, built, extracted, app, cleanup>>

\* the extractor harness before parseMetadata is applied
NoParts == [duration |-> <<>>, sampleRate |-> <<>>, channels |-> <<>>, bitrate |-> <<>>,
            order |-> "forward"]
NoExtract == [fn |-> "none", kind |-> "raw", parts |-> NoParts, logs |-> <<>>,
              metadata |-> [f \in Fields |-> EmptyStr]]

\* the handlers the DOMContentLoaded handler registers (app.js lines 17-45)
Handlers == {"dragover", "dragleave", "drop", "change", "click"}

\* updateStatusMessage(text, type), called by invocation by (0: the page itself)
Status(by, text, type) == [by |-> by, text |-> text, type |-> type]
ReadyStatus == Status(0, Str("SonicWave is ready"), "success")
InitFailedStatus == Status(0, Str("Initialization failed, reload the page"), "error")

\* the page before DOMContentLoaded: the loading indicator is in the markup, hidden
NoPage ==
    [engine |-> "none", handlers |-> {}, status |-> <<>>, hidden |-> TRUE,
     loadingMessage |-> EmptyStr, download |-> <<>>,
     run |-> [p \in Procs |-> "none"], changes |-> 0, uploads |-> 0]
\* the page once the DOMContentLoaded handler has run with a loaded engine
LoadedPage ==
    [NoPage EXCEPT !.engine = "loaded", !.handlers = Handlers, !.status = <<ReadyStatus>>]

\* cleanupFFmpeg before it is called
NoCleanup ==
    [pc |-> "idle", dir |-> <<>>, files |-> <<>>, k |-> 0, calls |-> <<>>,
     unlinked |-> {}, rejected |-> {}, outcome |-> "none"]

NoBuild == [fn |-> "none", command |-> <<>>, file |-> EmptyStr, format |-> EmptyStr,
            compressionLevel |-> Undefined]

Init ==
    /\ fs = <<>>
    /\ sel \in Selections
    /\ procs = [p \in Procs |-> Idle]
    /\ jobSeq = 0
    /\ jobLog = <<>>
    /\ built = NoBuild
    /\ logEl = LoadedLog
    /\ extracted = NoExtract
    /\ app = LoadedPage
    /\ cleanup = NoCleanup

Next ==
    \E p \in Procs :
        \/ CallCompressMultipleFiles(p)
        \/ CallCompressSingleFileWithRetry(p)
        \/ CallConvertAudioFormat(p)
        \/ CallParseAudioMetadata(p)
        \/ CallGetMediaMetadata(p)
        \/ WriteFile(p)
        \/ Exec(p)
        \/ ReadFile(p)
        \/ DeleteInput(p)
        \/ DeleteOutput(p)
        \/ RetryDelay(p)

Spec == Init /\ [][Next]_vars

----------------------------------------------------------------------------
(* One invocation on a page whose user changes the selectors while it runs *)

\* the user picks other values in the format/channels/sample rate/bitrate selectors
\* while an invocation is suspended in an engine call
ChangeSelectors ==
    /\ \E p \in Procs : procs[p].op # "idle" /\ procs[p].pc # "done"
    /\ app.changes < MaxChanges
    /\ \E s \in PageSelections \ {sel} : sel' = s
    /\ app' = [app EXCEPT !.changes = @ + 1]
    /\ UNCHANGED <<fs, procs, jobSeq, jobLog, built, logEl, extracted, cleanup>>

InitSel ==
    /\ fs = <<>>
    /\ sel \in PageSelections
    /\ procs = [p \in Procs |-> Idle]
    /\ jobSeq = 0
    /\ jobLog = <<>>
    /\ built = NoBuild
    /\ logEl = LoadedLog
    /\ extracted = NoExtract
    /\ app = LoadedPage
    /\ cleanup = NoCleanup

NextSel ==
    \/ ChangeSelectors
    \/ CallCompressMultipleFiles(1)
    \/ WriteFile(1)
    \/ Exec(1)
    \/ ReadFile(1)
    \/ DeleteInput(1)
    \/ DeleteOutput(1)

SpecSel == InitSel /\ [][NextSel]_vars

----------------------------------------------------------------------------
(* The page: app.js, from DOMContentLoaded to the compress button *)

\* loadFFmpeg whose catch block does not rethrow
loadFFmpegNoRethrow(failed) == FALSE
\* ffmpeg-utils.js loadFFmpeg, lines 36-40: whether the call throws, given that
\* createFFmpeg or ffmpeg.load() failed
loadFFmpegThrows(failed) == failed

\* app.js lines 11-52, after `await loadFFmpeg()` settled: the handlers are
\* registered and the ready status posted, or the catch posts the failure
AfterLoadFFmpeg(a, thrown) ==
    IF thrown
    THEN [a EXCEPT !.status = Append(@, InitFailedStatus)]
    ELSE [a EXCEPT !.handlers = Handlers, !.status = Append(@, ReadyStatus)]

\* the DOMContentLoaded handler up to `await ffmpeg.load()`; createFFmpeg may throw
DOMContentLoaded ==
    /\ app.engine = "none"
    /\ \E created \in BOOLEAN :
          LET started == log(logEl, Str("Loading FFmpeg..."))
          IN  IF created
              THEN /\ logEl' = log(started, Str("Loading FFmpeg core..."))
                   /\ app' = [app EXCEPT !.engine = "loading"]
              ELSE /\ logEl' = log(started, <<"FFmpeg load failed: ", "create">>)
                   /\ app' = AfterLoadFFmpeg([app EXCEPT !.engine = "failed"],
                                             loadFFmpegThrows(TRUE))
    /\ UNCHANGED <<fs, sel, procs, jobSeq, jobLog, built, extracted, cleanup>>

\* `await ffmpeg.load()` settles (ffmpeg-utils.js lines 31-40, app.js lines 9-52)
LoadSettles ==
    /\ app.engine = "loading"
    /\ \E ok \in BOOLEAN :
          /\ logEl' = IF ok THEN log(logEl, <<"FFmpeg loaded, version: ", "0.12">>)
                      ELSE log(logEl, <<"FFmpeg load failed: ", "load">>)
          /\ app' = AfterLoadFFmpeg([app EXCEPT !.engine = IF ok THEN "loaded" ELSE "failed"],
                                    loadFFmpegThrows(~ok))
    /\ UNCHANGED <<fs, sel, procs, jobSeq, jobLog, built, extracted, cleanup>>

\* what the user drops or picks: File objects with a name and a MIME type
UploadLists ==
    {<<[name |-> <<"a", Dot, "mp3">>, type |-> <<"audio/", "mpeg">>]>>,
     <<[name |-> <<"a", Dot, "MP3">>, type |-> EmptyStr],
       [name |-> <<"notes", Dot, "txt">>, type |-> <<"text/", "plain">>]>>,
     <<[name |-> <<"voice">>, type |-> <<"audio/", "opus">>],
       [name |-> <<"cover", Dot, "PNG">>, type |-> <<"image/", "png">>]>>}

\* file-handler.js isAudioFile, line 39
validExtensions == {Str("mp3"), Str("wav"), Str("m4a"), Str("aac"), Str("ogg"), Str("flac")}

\* file-handler.js isAudioFile: a valid extension, or file.type.startsWith('audio/')
isAudioFile(file) ==
    \/ toLowerCase(getFileExtension(file.name)) \in validExtensions
    \/ file.type # EmptyStr /\ Head(file.type) = "audio/"

\* invalidFiles.join(', ')
RECURSIVE invalidFiles(_)
invalidFiles(files) ==
    IF files = <<>> THEN <<>>
    ELSE LET rest == invalidFiles(Tail(files))
         IN  IF isAudioFile(Head(files)) THEN rest
             ELSE IF rest = <<>> THEN Head(files).name
             ELSE Head(files).name \o <<", ">> \o rest

\* file-handler.js handleFileUpload, lines 11-31, called by the drop and the
\* change handler (app.js lines 26-40), which drop its result
\* (explored before an invocation and beside a short one)
handleFileUpload(handler) ==
    /\ handler \in app.handlers
    /\ app.uploads < MaxUploads
    /\ \A p \in Procs : procs[p].op # "idle" => Short(procs[p])
    /\ \E files \in UploadLists :
          logEl' = IF invalidFiles(files) # <<>>
                   THEN log(logEl, <<"Ignored non-audio files: ">> \o invalidFiles(files))
                   ELSE logEl
    /\ app' = [app EXCEPT !.uploads = @ + 1]
    /\ UNCHANGED <<fs, sel, procs, jobSeq, jobLog, built, extracted, cleanup>>

Drop == handleFileUpload("drop")
Change == handleFileUpload("change")

\* ui.js showLoadingIndicator(message), lines 35-41
showLoadingIndicator(a, message) == [a EXCEPT !.loadingMessage = message, !.hidden = FALSE]

\* the click handler: compressSelectedFiles (app.js lines 56-80) up to the await of
\* compressMultipleFiles, or through its early return and its finally block
ClickCompress(p) ==
    /\ "click" \in app.handlers
    /\ procs[p].op = "idle"
    /\ \E selectedFiles \in Batches :
          /\ MayStart(p, selectedFiles = <<>>)
          /\ IF selectedFiles = <<>>
             THEN /\ Commit(p, [World(p) EXCEPT !.r.op = "compressSelectedFiles",
                                                !.r.pc = "done", !.r.outcome = "returned",
                                                !.r.value = Undefined])
                  /\ app' = showLoadingIndicator(
                                [app EXCEPT !.status = Append(@, Status(p,
                                                Str("Select the files to compress first"),
                                                "warning")),
                                            !.run[p] = "done"],
                                Str("false"))
             ELSE /\ Commit(p, compressMultipleFiles(
                               [World(p) EXCEPT !.r.op = "compressMultipleFiles",
                                                !.r.files = selectedFiles, !.r.i = 0,
                                                !.r.batchOptions = AppMaxRetries,
                                                !.r.selected = sel], sel))
                  /\ app' = [showLoadingIndicator(app, Str("true")) EXCEPT
                                !.status = Append(@, Status(p, Str("Processing files..."),
                                                            "info")),
                                !.run[p] = "awaiting"]
    /\ UNCHANGED <<fs, sel, built, extracted, cleanup>>

\* audio-process.js compressMultipleFiles, lines 129-132: the object it returns
BatchValue(r) == [results |-> r.results, errors |-> r.errors]

\* f.name of an entry (app.js line 90); a missing property reads as undefined
NameOf(f) == IF "name" \in DOMAIN f THEN f.name ELSE <<"undefined">>

\* results.failed.map(f => f.name).join(', ')
RECURSIVE joinNames(_)
joinNames(entries) ==
    IF entries = <<>> THEN <<>>
    ELSE IF Len(entries) = 1 THEN NameOf(Head(entries))
    ELSE NameOf(Head(entries)) \o <<", ">> \o joinNames(Tail(entries))

\* app.js lines 82-95: results.success and results.failed are read from the object
\* compressMultipleFiles returned; reading .length of undefined throws a TypeError,
\* which the catch of line 93 turns into the generic failure status
AfterBatch(a, p, results) ==
    LET failure == [a EXCEPT !.status = Append(@, Status(p, Str("File processing failed"),
                                                         "error"))]
    IN  IF "success" \notin DOMAIN results
        THEN failure
        ELSE LET shown == [a EXCEPT
                              !.status = Append(@, Status(p, <<"Processed ",
                                                    Decimal(Len(results.success)), " files">>,
                                                    "success")),
                              !.download = results.success]
             IN  IF "failed" \notin DOMAIN results
                 THEN [shown EXCEPT !.status = Append(@, Status(p,
                                                 Str("File processing failed"), "error"))]
                 ELSE IF Len(results.failed) > 0
                      THEN [shown EXCEPT !.status = Append(@, Status(p,
                                             <<"Some files failed: ">>
                                             \o joinNames(results.failed), "error"))]
                      ELSE shown

\* the await of app.js line 75 resumes: lines 82-99
CompressSelectedFilesResume(p) ==
    /\ app.run[p] = "awaiting"
    /\ procs[p].pc = "done"
    /\ app' = showLoadingIndicator(
                 [AfterBatch(app, p, BatchValue(procs[p])) EXCEPT !.run[p] = "done"],
                 Str("false"))
    /\ UNCHANGED <<fs, sel, procs, jobSeq, jobLog, built, logEl, extracted, cleanup>>

InitApp ==
    /\ fs = <<>>
    /\ sel \in Selections
    /\ procs = [p \in Procs |-> Idle]
    /\ jobSeq = 0
    /\ jobLog = <<>>
    /\ built = NoBuild
    /\ logEl = <<>>
    /\ extracted = NoExtract
    /\ app = NoPage
    /\ cleanup = NoCleanup

NextApp ==
    \/ DOMContentLoaded
    \/ LoadSettles
    \/ Drop
    \/ Change
    \/ \E p \in Procs :
          \/ ClickCompress(p)
          \/ CompressSelectedFilesResume(p)
          \/ WriteFile(p)
          \/ Exec(p)
          \/ ReadFile(p)
          \/ DeleteInput(p)
          \/ DeleteOutput(p)

SpecApp == InitApp /\ [][NextApp]_vars

----------------------------------------------------------------------------
(* Metadata probes beside single conversions *)

NextProbe ==
    \E p \in Procs :
        \/ CallParseAudioMetadata(p)
        \/ CallGetMediaMetadata(p)
        \/ CallConvertAudioFormat(p)
        \/ WriteFile(p)
        \/ Exec(p)
        \/ ReadFile(p)
        \/ DeleteInput(p)
        \/ DeleteOutput(p)

SpecProbe == Init /\ [][NextProbe]_vars

----------------------------------------------------------------------------
(* The log callback, applied to one engine message, and the extractor behind it *)

\* words the engine may print next to a line: the four the callback looks for,
\* tokens that contain one of them, and near misses in another case
Markers ==
    {<<>>, <<"Input">>, <<"Output">>, <<"error">>, <<"warning">>, <<"I/O error">>,
     <<"Outputting">>, <<"warnings">>, <<"Inputs">>, <<"Error">>, <<"WARNING">>,
     <<"input">>, <<"output">>}
MessageBodies ==
    {<<>>, DurationLine, StreamLine("mono"), StreamLine("stereo"),
     <<"size= 1024kB time=", "00:03:21.45", " bitrate= ", "192", " kbps">>}
EngineMessages ==
    {m \o b : m \in Markers, b \in MessageBodies}
    \cup {b \o m : m \in Markers, b \in MessageBodies}

InitLog ==
    /\ fs = <<>>
    /\ sel \in {CHOOSE s \in Selections : TRUE}
    /\ procs = [p \in Procs |-> Idle]
    /\ jobSeq = 0
    /\ jobLog = <<>>
    /\ built = NoBuild
    /\ logEl = LoadedLog
    /\ app = LoadedPage
    /\ cleanup = NoCleanup
    /\ extracted \in {[NoExtract EXCEPT !.logs = message] : message \in EngineMessages}

\* the engine emits the message during an exec: the callback of loadFFmpeg runs
EngineMessage ==
    /\ extracted.fn = "none"
    /\ logEl' = logCallback(logEl, extracted.logs)
    /\ extracted' = [extracted EXCEPT !.fn = "logCallback"]
    /\ UNCHANGED <<fs, sel, procs, jobSeq, jobLog, built, app, cleanup>>

\* file-handler.js parseAudioMetadata, lines 298-301: the log after the offset
\* recorded before the exec is sliced and parsed
ExtractAfterMessage ==
    /\ extracted.fn = "logCallback"
    /\ extracted' = [extracted EXCEPT
                        !.fn = "parseAudioMetadata",
                        !.metadata = parseMetadata(substring(logEl, Len(LoadedLog)))]
    /\ UNCHANGED <<fs, sel, procs, jobSeq, jobLog, built, logEl, app, cleanup>>

NextLog == EngineMessage \/ ExtractAfterMessage

SpecLog == InitLog /\ [][NextLog]_vars

----------------------------------------------------------------------------
(* One call of compressSingleFileWithRetry *)

NextRetry ==
    \/ CallCompressSingleFileWithRetry(1)
    \/ WriteFile(1)
    \/ Exec(1)
    \/ ReadFile(1)
    \/ DeleteInput(1)
    \/ DeleteOutput(1)
    \/ RetryDelay(1)

SpecRetry == Init /\ [][NextRetry]_vars

----------------------------------------------------------------------------
(* Conversions of files with all kinds of names, among them the same-format
   helpers compressAudioBitrate, changeAudioSamplerate and changeAudioChannels *)

\* file names: upper-case and multiple extensions, an unregistered extension, no
\* dot at all (the whole name is then the extension), a name that is a format id
NamedFiles ==
    {<<"a", Dot, "mp3">>, <<"Song", Dot, "WAV">>, <<"x", Dot, "tar", Dot, "flac">>,
     <<"c", Dot, "xyz">>, <<"voice">>, <<"mp3">>}

\* the bitrate argument of compressAudioBitrate: given, or empty
Bitrates == {Str("64k"), EmptyStr}

\* a compressAudioBitrate that rejects unregistered formats only
compressAudioBitrateRejectsUnregistered(format) == ~Registered(format)
\* audio-process.js line 217: if (!config || !config.supportsBitrate)
compressAudioBitrateRejects(format) ==
    ~Registered(format) \/ ~formatConfig[format[1]].supportsBitrate

\* audio-process.js compressAudioBitrate, up to the first await of convertAudioFormat
CallCompressAudioBitrate(p) ==
    /\ MayStart(p, TRUE)
    /\ \E file \in NamedFiles, bitrate \in Bitrates :
          LET format == getFileExtension(file)
              options == [NoOptions EXCEPT !.bitrate = bitrate]
              w == [World(p) EXCEPT !.r.op = "compressAudioBitrate", !.r.file = file,
                                    !.r.options = options]
          IN  IF compressAudioBitrateRejects(format)
              THEN Commit(p, DirectResume([w EXCEPT !.r.error = "Error"]))
              ELSE Commit(p, StartJob(w, "convertAudioFormat", file, format, options))
    /\ UNCHANGED <<fs, sel, built, extracted, app, cleanup>>

\* audio-process.js changeAudioSamplerate
CallChangeAudioSamplerate(p) ==
    /\ MayStart(p, TRUE)
    /\ \E file \in NamedFiles :
          LET format == getFileExtension(file)
              options == [NoOptions EXCEPT !.samplerate = Str("22050")]
              w == [World(p) EXCEPT !.r.op = "changeAudioSamplerate", !.r.file = file,
                                    !.r.options = options]
          IN  IF ~Registered(format)
              THEN Commit(p, DirectResume([w EXCEPT !.r.error = "TypeError"]))
              ELSE Commit(p, StartJob(w, "convertAudioFormat", file, format, options))
    /\ UNCHANGED <<fs, sel, built, extracted, app, cleanup>>

\* audio-process.js changeAudioChannels
CallChangeAudioChannels(p) ==
    /\ MayStart(p, TRUE)
    /\ \E file \in NamedFiles :
          LET format == getFileExtension(file)
              options == [NoOptions EXCEPT !.channels = Str("1")]
              w == [World(p) EXCEPT !.r.op = "changeAudioChannels", !.r.file = file,
                                    !.r.options = options]
          IN  IF ~Registered(format)
              THEN Commit(p, DirectResume([w EXCEPT !.r.error = "TypeError"]))
              ELSE Commit(p, StartJob(w, "convertAudioFormat", file, format, options))
    /\ UNCHANGED <<fs, sel, built, extracted, app, cleanup>>

\* convertAudioFormat(file, targetFormat) on a named file
CallConvertNamedFile(p) ==
    /\ MayStart(p, TRUE)
    /\ \E file \in NamedFiles, targetFormat \in {Str("wav"), Str("mp3"), Str("xyz")} :
          LET w == [World(p) EXCEPT !.r.op = "convertAudioFormat", !.r.file = file]
          IN  IF ~Registered(targetFormat)
              THEN Commit(p, DirectResume([w EXCEPT !.r.error = "TypeError"]))
              ELSE Commit(p, StartJob(w, "convertAudioFormat", file, targetFormat, NoOptions))
    /\ UNCHANGED <<fs, sel, built, extracted, app, cleanup>>

\* compressMultipleFiles([file]) on a named file: one compressSingleFile job
CallCompressNamedFile(p) ==
    /\ MayStart(p, TRUE)
    /\ \E file \in NamedFiles :
          Commit(p, compressMultipleFiles(
                    [World(p) EXCEPT !.r.op = "compressMultipleFiles", !.r.files = <<file>>,
                                     !.r.i = 0, !.r.batchOptions = AppMaxRetries,
                                     !.r.selected = sel], sel))
    /\ UNCHANGED <<fs, sel, built, extracted, app, cleanup>>

InitNamed ==
    /\ fs = <<>>
    /\ sel \in {[format |-> Str(f), ac |-> EmptyStr, ar |-> EmptyStr, ba |-> Str("128k")] :
                   f \in {"wav", "mp3"}}
    /\ procs = [p \in Procs |-> Idle]
    /\ jobSeq = 0
    /\ jobLog = <<>>
    /\ built = NoBuild
    /\ logEl = LoadedLog
    /\ extracted = NoExtract
    /\ app = LoadedPage
    /\ cleanup = NoCleanup

NextNamed ==
    \/ CallCompressAudioBitrate(1)
    \/ CallChangeAudioSamplerate(1)
    \/ CallChangeAudioChannels(1)
    \/ CallConvertNamedFile(1)
    \/ CallCompressNamedFile(1)
    \/ WriteFile(1)
    \/ Exec(1)
    \/ ReadFile(1)
    \/ DeleteInput(1)
    \/ DeleteOutput(1)

SpecNamed == InitNamed /\ [][NextNamed]_vars

----------------------------------------------------------------------------
(* cleanupFFmpeg (ffmpeg-utils.js lines 62-81) *)

\* String.prototype.startsWith
startsWith(s, prefix) == Len(s) >= Len(prefix) /\ SubSeq(s, 1, Len(prefix)) = prefix

\* ffmpeg-utils.js lines 68-69: the entries cleanupFFmpeg unlinks
IsTemporary(file) ==
    /\ file # <<Dot>>
    /\ file # <<Dot, Dot>>
    /\ startsWith(file, <<"input", Dot>>) \/ startsWith(file, <<"output", Dot>>)

\* names an entry of the workspace root can have
RootNames ==
    {<<"input", Dot, "mp3">>, <<"output", Dot, "wav">>, <<"input", Dot>>,
     <<"input">>, <<"Output", Dot, "mp3">>, <<"my-input", Dot, "mp3">>,
     <<"notes", Dot, "txt">>}

\* the orders in which readdir can list a set of names, after '.' and '..'
Listings(names) ==
    {<<<<Dot>>, <<Dot, Dot>>>> \o l : l \in
        {l \in [1..Cardinality(names) -> names] :
            \A a, b \in 1..Cardinality(names) : a # b => l[a] # l[b]}}

\* the for loop of lines 67-76, from entry k + 1 up to the next `await
\* ffmpeg.FS('unlink', file)` or the end of the listing
RECURSIVE cleanupLoop(_)
cleanupLoop(c) ==
    IF c.k >= Len(c.files)
    THEN [c EXCEPT !.pc = "done", !.outcome = "returned"]
    ELSE LET file == c.files[c.k + 1]
         IN  IF IsTemporary(file)
             THEN [c EXCEPT !.k = @ + 1, !.pc = "unlink",
                            !.calls = Append(@, <<"unlink", file>>)]
             ELSE cleanupLoop([c EXCEPT !.k = @ + 1])

\* a cleanup whose first failed unlink ends the loop
unlinkRejectedEndsLoop(c) == [c EXCEPT !.pc = "done", !.outcome = "returned"]
\* lines 70-74: the inner catch ignores a failed unlink and the loop goes on
unlinkRejected(c) == cleanupLoop(c)

\* cleanupFFmpeg up to `await ffmpeg.FS('readdir', '/')`, or its return when no
\* engine was created
CallCleanupFFmpeg ==
    /\ cleanup.pc = "idle"
    /\ cleanup' = IF app.engine = "none"
                  THEN [cleanup EXCEPT !.pc = "done", !.outcome = "returned", !.dir = fs]
                  ELSE [cleanup EXCEPT !.pc = "readdir", !.dir = fs,
                                       !.calls = Append(@, <<"readdir", <<"/">>>>)]
    /\ UNCHANGED <<fs, sel, procs, jobSeq, jobLog, built, logEl, extracted, app>>

\* readdir settles: the listing, or a rejection that the outer catch logs
ReaddirSettles ==
    /\ cleanup.pc = "readdir"
    /\ \/ /\ \E files \in Listings(DOMAIN fs) :
                cleanup' = cleanupLoop([cleanup EXCEPT !.files = files, !.k = 0])
          /\ logEl' = logEl
       \/ /\ cleanup' = [cleanup EXCEPT !.pc = "done", !.outcome = "returned"]
          /\ logEl' = log(logEl, <<"FFmpeg cleanup error: ", "readdir">>)
    /\ UNCHANGED <<fs, sel, procs, jobSeq, jobLog, built, extracted, app>>

\* unlink settles: the entry is gone, or the engine rejected and the entry stays
UnlinkSettles ==
    /\ cleanup.pc = "unlink"
    /\ LET file == cleanup.files[cleanup.k]
       IN  \E ok \in BOOLEAN :
             IF ok
             THEN /\ fs' = EngineDelete(fs, file)
                  /\ cleanup' = cleanupLoop([cleanup EXCEPT !.unlinked = @ \cup {file}])
             ELSE /\ fs' = fs
                  /\ cleanup' = unlinkRejected([cleanup EXCEPT !.rejected = @ \cup {file}])
    /\ UNCHANGED <<sel, procs, jobSeq, jobLog, built, logEl, extracted, app>>

\* the engine when cleanupFFmpeg is called: never created, created and loaded, or
\* created with a failed load
CleanupPages ==
    {NoPage, LoadedPage,
     [NoPage EXCEPT !.engine = "failed", !.status = <<InitFailedStatus>>]}

InitClean ==
    /\ \E names \in SUBSET RootNames :
          /\ Cardinality(names) <= MaxEntries
          /\ fs = [n \in names |-> 0]
    /\ sel \in {CHOOSE s \in Selections : TRUE}
    /\ procs = [p \in Procs |-> Idle]
    /\ jobSeq = 0
    /\ jobLog = <<>>
    /\ built = NoBuild
    /\ logEl = <<>>
    /\ extracted = NoExtract
    /\ app \in CleanupPages
    /\ cleanup = NoCleanup

NextClean == CallCleanupFFmpeg \/ ReaddirSettles \/ UnlinkSettles

SpecClean == InitClean /\ [][NextClean]_vars

----------------------------------------------------------------------------
(* The three command builders, applied to the same file, format and options *)

BuilderFiles ==
    {<<"a", Dot, "mp3">>, <<"Song", Dot, "WAV">>, <<"noext">>, <<"x", Dot, "tar", Dot, "flac">>}
OptionValues(v) == {EmptyStr, Str(v)}

\* the options handed to convertAudioFormat / createFFmpegCommand in a built state
BuiltConvertOptions ==
    [channels |-> sel.ac, samplerate |-> sel.ar, bitrate |-> sel.ba,
     compressionLevel |-> built.compressionLevel]
BuiltCreateOptions ==
    LET profile == formatConfig[built.format[1]]
    IN  [channels |-> sel.ac, samplerate |-> sel.ar, codec |-> profile.codec,
         bitrate |-> sel.ba, supportsBitrate |-> profile.supportsBitrate,
         format |-> built.format, outputFile |-> OutputKey(profile)]

InitCmd ==
    /\ fs = <<>>
    /\ procs = [p \in Procs |-> Idle]
    /\ jobSeq = 0
    /\ jobLog = <<>>
    /\ logEl = LoadedLog
    /\ extracted = NoExtract
    /\ app = LoadedPage
    /\ cleanup = NoCleanup
    /\ sel \in {[format |-> Str(f), ac |-> ac, ar |-> ar, ba |-> ba] :
                   f \in FormatIds, ac \in OptionValues("1"),
                   ar \in OptionValues("44100"), ba \in OptionValues("128k")}
    /\ built \in {[NoBuild EXCEPT !.file = file, !.format = Str(f), !.compressionLevel = cl] :
                     file \in BuilderFiles, f \in FormatIds, cl \in {Undefined, Str("8")}}

\* compressSingleFile: built.format is the format read at entry (line 14), sel the
\* selectors as they are when the command is built (lines 24-44)
BuildCompressSingleFile ==
    /\ built.fn = "none"
    /\ built' = [built EXCEPT
                    !.fn = "compressSingleFile",
                    !.command = compressSingleFileCommand(
                                    InputKey(built.file), formatConfig[built.format[1]],
                                    OutputKey(formatConfig[built.format[1]]),
                                    sel.format, sel.ac, sel.ar, sel.ba)]
    /\ UNCHANGED <<fs, sel, procs, jobSeq, jobLog, logEl, extracted, app, cleanup>>

BuildConvertAudioFormat ==
    /\ built.fn = "none"
    /\ built' = [built EXCEPT
                    !.fn = "convertAudioFormat",
                    !.command = convertAudioFormatCommand(
                                    InputKey(built.file), formatConfig[built.format[1]],
                                    OutputKey(formatConfig[built.format[1]]),
                                    built.format, BuiltConvertOptions)]
    /\ UNCHANGED <<fs, sel, procs, jobSeq, jobLog, logEl, extracted, app, cleanup>>

BuildCreateFFmpegCommand ==
    /\ built.fn = "none"
    /\ built' = [built EXCEPT
                    !.fn = "createFFmpegCommand",
                    !.command = createFFmpegCommand(InputKey(built.file), BuiltCreateOptions)]
    /\ UNCHANGED <<fs, sel, procs, jobSeq, jobLog, logEl, extracted, app, cleanup>>

NextCmd ==
    \/ BuildCompressSingleFile
    \/ BuildConvertAudioFormat
    \/ BuildCreateFFmpegCommand

SpecCmd == InitCmd /\ [][NextCmd]_vars

----------------------------------------------------------------------------
(* The metadata extractor, applied to log texts *)

MaxRawLen == 2    \* longest log text made of arbitrary tokens

\* what a log text may say about each field: nothing, a value in the form the
\* extractor looks for, or something close to it
PartChoices ==
    [duration : {<<>>, <<"Duration: ", "00:03:21.45">>, <<"Duration: ", "N/A">>},
     sampleRate : {<<>>, <<"44100", " Hz">>, <<"44100">>},
     channels : {<<>>, <<"stereo">>, <<"mono">>, <<"2", " channels">>, <<"5.1">>},
     bitrate : {<<>>, <<"192", " kbps">>, <<"192.5", " kbps">>, <<"192", " kb/s">>},
     order : {"forward", "backward"}]

\* the text of the parts, in the order ffmpeg prints them or in the opposite order
Compose(pt) ==
    IF pt.order = "forward"
    THEN pt.duration \o <<", ", "... ">> \o pt.sampleRate \o <<", ">> \o pt.channels
         \o <<", ">> \o pt.bitrate
    ELSE pt.bitrate \o <<", ">> \o pt.channels \o <<", ">> \o pt.sampleRate
         \o <<", ">> \o pt.duration

RawToks == {"Duration: ", "00:03:21.45", "44100", " Hz", "stereo", " channels", " kbps", "\n"}
RawTexts == SeqsUpTo(RawToks, MaxRawLen)

InitMeta ==
    /\ fs = <<>>
    /\ sel \in Selections
    /\ procs = [p \in Procs |-> Idle]
    /\ jobSeq = 0
    /\ jobLog = <<>>
    /\ built = NoBuild
    /\ logEl = LoadedLog
    /\ app = LoadedPage
    /\ cleanup = NoCleanup
    /\ extracted \in
          {[NoExtract EXCEPT !.kind = "parts", !.parts = pt, !.logs = Compose(pt)] :
              pt \in PartChoices}
          \cup {[NoExtract EXCEPT !.logs = text] : text \in RawTexts}

\* file-handler.js parseMetadata(logs)
ApplyParseMetadata ==
    /\ extracted.fn = "none"
    /\ extracted' = [extracted EXCEPT !.fn = "parseMetadata",
                                      !.metadata = parseMetadata(extracted.logs)]
    /\ UNCHANGED <<fs, sel, procs, jobSeq, jobLog, built, logEl, app, cleanup>>

\* ffmpeg-utils.js parseMetadata(logs)
ApplyFFmpegUtilsParseMetadata ==
    /\ extracted.fn = "none"
    /\ extracted' = [extracted EXCEPT !.fn = "ffmpegUtilsParseMetadata",
                                      !.metadata = ffmpegUtilsParseMetadata(extracted.logs)]
    /\ UNCHANGED <<fs, sel, procs, jobSeq, jobLog, built, logEl, app, cleanup>>

NextMeta ==
    \/ ApplyParseMetadata
    \/ ApplyFFmpegUtilsParseMetadata

SpecMeta == InitMeta /\ [][NextMeta]_vars

----------------------------------------------------------------------------
(* Properties *)

Batch(p) == procs[p].op = "compressMultipleFiles"
Retry(p) == procs[p].op = "compressSingleFileWithRetry"
Done(p) == procs[p].pc = "done"
Indices(entries) == [k \in 1..Len(entries) |-> entries[k].idx]
Increasing(q) == \A j, k \in 1..Len(q) : j < k => q[j] < q[k]
Range(q) == {q[k] : k \in 1..Len(q)}

\* C1: once a job of compressSingleFile or convertAudioFormat has returned or thrown,
\* the workspace holds no buffer written by that job, whichever step failed
C1_NoBufferAfterJob ==
    \A j \in 1..Len(jobLog) :
        jobLog[j].settled /\ jobLog[j].fn \in {"compressSingleFile", "convertAudioFormat"}
            => \A n \in DOMAIN fs : fs[n] # j

\* C2: the object returned by compressMultipleFiles partitions the input files:
\* len(results) + len(errors) = len(files), every file is in exactly one list, and
\* each list keeps the input order
C2_BatchPartition ==
    \A p \in Procs :
        Batch(p) /\ Done(p) =>
            LET r == procs[p]
                ok == Indices(r.results)
                ko == Indices(r.errors)
            IN  /\ Len(r.results) + Len(r.errors) = Len(r.files)
                /\ Range(ok) \cup Range(ko) = 0..(Len(r.files) - 1)
                /\ Range(ok) \cap Range(ko) = {}
                /\ Increasing(ok) /\ Increasing(ko)
                /\ \A k \in 1..Len(r.results) : r.results[k].file = r.files[ok[k] + 1]
                /\ \A k \in 1..Len(r.errors) : r.errors[k].file = r.files[ko[k] + 1]

C2_Witness ==
    \E p \in Procs :
        /\ Batch(p) /\ Done(p)
        /\ Len(procs[p].files) = 3
        /\ Indices(procs[p].results) = <<1>>
        /\ Indices(procs[p].errors) = <<0, 2>>

\* C3: compressMultipleFiles never throws and never stops at a failed job: it ends
\* only by returning, after the last file; when only the second of three jobs
\* fails, in exec, the successes are the first and the third, in that order
C3_FailureNeverAbortsBatch ==
    \A p \in Procs :
        Batch(p) =>
            LET r == procs[p]
            IN  /\ r.outcome # "thrown"
                /\ Len(r.results) + Len(r.errors) = r.i
                /\ Done(p) => r.outcome = "returned" /\ r.i = Len(r.files)
                /\ (Done(p) /\ Len(r.files) = 3 /\ Len(r.errors) = 1
                        /\ r.errors[1].idx = 1 /\ r.errors[1].error = "exec")
                     => Indices(r.results) = <<0, 2>>

C3_Witness ==
    \E p \in Procs :
        /\ Batch(p) /\ Done(p)
        /\ Len(procs[p].files) = 3
        /\ Len(procs[p].errors) = 1
        /\ procs[p].errors[1].idx = 1 /\ procs[p].errors[1].error = "exec"
        /\ Indices(procs[p].results) = <<0, 2>>

\* C4: when the failed attempts of compressSingleFileWithRetry all failed in exec,
\* k of them followed by a success end the call with a result after exactly k + 1
\* attempts, k <= maxRetries; otherwise the call throws after exactly
\* maxRetries + 1 attempts, and never makes more
C4_RetryBound ==
    \A p \in Procs :
        Retry(p) /\ (\A k \in 1..Len(procs[p].fails) : procs[p].fails[k] = "exec") =>
            LET r == procs[p]
            IN  /\ r.attempts <= r.maxRetries + 1
                /\ (Done(p) /\ r.outcome = "returned")
                     => r.attempts = Len(r.fails) + 1 /\ Len(r.fails) <= r.maxRetries
                            /\ r.value # Undefined
                /\ (Done(p) /\ r.outcome = "thrown")
                     => r.attempts = r.maxRetries + 1 /\ Len(r.fails) = r.maxRetries + 1
                /\ ~Done(p) => Len(r.fails) <= r.maxRetries

C4_Witness ==
    \E p \in Procs :
        /\ Retry(p) /\ Done(p)
        /\ procs[p].maxRetries = 2
        /\ procs[p].fails = <<"exec", "exec">>
        /\ procs[p].outcome = "returned"
        /\ procs[p].attempts = 3

\* C5: in a batch a job whose exec failed is recorded as failed only after the
\* configured number of attempts (maxRetries + 1) has been made
C5_BatchRetriesBeforeFailure ==
    \A p \in Procs :
        Batch(p) =>
            \A k \in 1..Len(procs[p].errors) :
                procs[p].errors[k].error = "exec"
                    => procs[p].errors[k].attempts = procs[p].batchOptions + 1

\* C6: an attempt of compressSingleFileWithRetry that failed in writeFile or in
\* readFile is the last attempt: no delay, no further attempt
C6_OnlyExecRetried ==
    \A p \in Procs :
        Retry(p) =>
            \A k \in 1..Len(procs[p].fails) :
                procs[p].fails[k] \in {"write", "read"}
                    => /\ k = Len(procs[p].fails)
                       /\ procs[p].attempts = k
                       /\ procs[p].pc = "done"

\* the positions of the '-b:a' argument in a command vector
BitrateArgs(command) == {k \in 1..Len(command) : command[k] = Str("-b:a")}

\* C7: a command built for a profile with supportsBitrate = false holds no '-b:a',
\* whatever the options; for supportsBitrate = true and a non-empty bitrate it
\* holds '-b:a' followed by that bitrate exactly once
C7_BitrateOnlyWhenSupported ==
    built.fn # "none" =>
        LET profile == formatConfig[built.format[1]]
            at == BitrateArgs(built.command)
        IN  /\ ~profile.supportsBitrate => at = {}
            /\ (profile.supportsBitrate /\ Truthy(sel.ba))
                 => /\ Cardinality(at) = 1
                    /\ \A k \in at : k < Len(built.command) /\ built.command[k + 1] = sel.ba

\* WAV to WAV with bitrate '128k', through convertAudioFormat
C7_Witness ==
    /\ built.fn = "convertAudioFormat"
    /\ getFileExtension(built.file) = Str("wav")
    /\ built.format = Str("wav")
    /\ sel.ba = Str("128k")
    /\ BitrateArgs(built.command) = {}

\* the place of an argument in the fixed order; 0 for a value
Rank(arg) ==
    CASE arg = Str("-i") -> 1
      [] arg = Str("-ac") -> 2
      [] arg = Str("-ar") -> 3
      [] arg = Str("-acodec") -> 4
      [] arg = Str("-b:a") -> 5
      [] arg \in {Str("-compression_level"), Str("-strict")} -> 6
      [] OTHER -> 0

\* C8: every command vector is: '-i' input, ['-ac'], ['-ar'], '-acodec', ['-b:a'],
\* format-specific arguments, output name last
C8_FixedArgumentOrder ==
    built.fn # "none" =>
        LET command == built.command
            flags == {k \in 1..Len(command) : Rank(command[k]) > 0}
        IN  /\ command[1] = Str("-i") /\ command[2] = InputKey(built.file)
            /\ \E k \in flags : command[k] = Str("-acodec")
            /\ \A j, k \in flags : j < k => Rank(command[j]) < Rank(command[k])
            /\ command[Len(command)] = OutputKey(formatConfig[built.format[1]])

\* the engine keys of a job
Keys(j) == {jobLog[j].inputName, jobLog[j].outputName} \ {EmptyStr}
SameJob(j, k) == jobLog[j].proc = jobLog[k].proc /\ jobLog[j].idx = jobLog[k].idx

\* C9: two distinct jobs never use a common engine key
C9_JobScopedKeys ==
    \A j, k \in 1..Len(jobLog) : ~SameJob(j, k) => Keys(j) \cap Keys(k) = {}

\* a job holds the workspace from its first writeFile to the end of its cleanup
InEngine(p) == procs[p].pc \in {"exec", "readFile", "deleteInput", "deleteOutput"}

\* C10: no engine call of a job happens while another job holds the workspace
C10_ExclusiveWorkspace ==
    \A p, q \in Procs : p # q => ~(InEngine(p) /\ InEngine(q))

\* the jobs of invocation p, in the order they started
JobsOf(p) == {j \in 1..Len(jobLog) : jobLog[j].proc = p}
\* the engine calls of job j that have settled, oldest first
CallNames(j) == [k \in 1..Len(jobLog[j].calls) |-> jobLog[j].calls[k].call]
Count(q, x) == Cardinality({k \in 1..Len(q) : q[k] = x})
Last(q) == q[Len(q)]
Converting(j) == jobLog[j].fn \in {"compressSingleFile", "convertAudioFormat"}

C12_BothDeletesOncePerJob ==
    \A j \in 1..Len(jobLog) :
        jobLog[j].settled /\ Converting(j) =>
            /\ Count(CallNames(j), "deleteInput") = 1
            /\ Count(CallNames(j), "deleteOutput") = 1

\* C13: when an attempt of compressSingleFileWithRetry has issued its writeFile or
\* its exec, the workspace holds no output buffer written by an earlier attempt of
\* the same call
C13_NoStaleOutputAtRetry ==
    \A p \in Procs :
        Retry(p) /\ procs[p].pc \in {"writeFile", "exec"} =>
            \A n \in DOMAIN fs :
                ~(/\ fs[n] \in JobsOf(p)
                  /\ fs[n] < procs[p].jid
                  /\ n = jobLog[fs[n]].outputName)

\* the outcome the calls before the cleanup decide: the error of the one that
\* rejected, "none" when each of them resolved
Decided(calls) ==
    LET failed == {k \in 1..Len(calls) :
                      calls[k].call \in {"writeFile", "exec", "readFile"} /\ ~calls[k].ok}
    IN  IF failed = {} THEN "none"
        ELSE CASE calls[CHOOSE k \in failed : TRUE].call = "writeFile" -> "write"
               [] calls[CHOOSE k \in failed : TRUE].call = "exec" -> "exec"
               [] OTHER -> "read"
DeleteRejected(j) ==
    \E k \in 1..Len(jobLog[j].calls) :
        jobLog[j].calls[k].call \in {"deleteInput", "deleteOutput"} /\ ~jobLog[j].calls[k].ok

\* C14: a job of compressSingleFile or convertAudioFormat ends with the outcome its
\* writeFile, exec and readFile decided, whether its deletes resolved or rejected;
\* convertAudioFormat hands exactly that outcome to its caller; a rejected delete
\* inside deleteFileFromFFmpeg leaves getMediaMetadata without an error
C14_CleanupNeverChangesOutcome ==
    /\ \A j \in 1..Len(jobLog) :
          jobLog[j].settled =>
              /\ Converting(j) => jobLog[j].error = Decided(jobLog[j].calls)
              /\ (jobLog[j].fn = "getMediaMetadata" /\ DeleteRejected(j))
                    => jobLog[j].error = "none"
              /\ jobLog[j].error # "delete"
    /\ \A p \in Procs :
          procs[p].op = "convertAudioFormat" /\ Done(p) /\ procs[p].jid > 0 =>
              LET decided == Decided(jobLog[procs[p].jid].calls)
              IN  IF decided = "none"
                  THEN procs[p].outcome = "returned" /\ procs[p].value = ResultName(procs[p])
                  ELSE procs[p].outcome = "thrown" /\ procs[p].value = Str(decided)

\* a conversion threw its exec error although its cleanup delete was rejected, beside
\* a getMediaMetadata probe that returned although deleteFileFromFFmpeg met a rejection
C14_Witness ==
    /\ \E p \in Procs :
          /\ procs[p].op = "convertAudioFormat" /\ Done(p) /\ procs[p].jid > 0
          /\ procs[p].outcome = "thrown" /\ procs[p].value = Str("exec")
          /\ DeleteRejected(procs[p].jid)
    /\ \E j \in 1..Len(jobLog) :
          /\ jobLog[j].fn = "getMediaMetadata" /\ jobLog[j].settled
          /\ DeleteRejected(j) /\ jobLog[j].error = "none"

\* C15: the settled engine calls of a conversion job are writeFile, then exec only
\* after a resolved writeFile, then readFile only after a resolved exec, then the
\* cleanup deletes; a job whose writeFile rejected has issued no exec and no
\* readFile, is in its cleanup or past it, and ends with the write error
C15_CallOrder ==
    /\ \A j \in 1..Len(jobLog) :
          Converting(j) =>
              LET c == jobLog[j].calls
              IN  /\ \A k \in 1..Len(c) :
                        CASE c[k].call = "writeFile" -> k = 1
                          [] c[k].call = "exec" -> k = 2 /\ c[1].ok
                          [] c[k].call = "readFile" -> k = 3 /\ c[2].call = "exec" /\ c[2].ok
                          [] c[k].call = "deleteInput" ->
                                /\ k > 1
                                /\ \/ c[k - 1].call = "readFile"
                                   \/ c[k - 1].call \in {"writeFile", "exec"} /\ ~c[k - 1].ok
                          [] OTHER -> k > 1 /\ c[k - 1].call = "deleteInput"
                  /\ (Len(c) >= 1 /\ ~c[1].ok) =>
                        /\ Count(CallNames(j), "exec") = 0
                        /\ Count(CallNames(j), "readFile") = 0
                        /\ jobLog[j].settled => jobLog[j].error = "write"
    /\ \A p \in Procs :
          (procs[p].fn \in {"compressSingleFile", "convertAudioFormat"}
               /\ procs[p].pc \in {"exec", "readFile", "deleteInput", "deleteOutput"}) =>
              LET c == jobLog[procs[p].jid].calls
              IN  /\ procs[p].pc = "exec" => Len(c) = 1 /\ c[1].ok
                  /\ procs[p].pc = "readFile" => Len(c) = 2 /\ c[2].ok
                  /\ ~c[1].ok => /\ procs[p].pc \in {"deleteInput", "deleteOutput"}
                                 /\ procs[p].error = "write"

\* a job whose writeFile rejected went straight to its cleanup and failed with the
\* write error
C15_Witness ==
    \E j \in 1..Len(jobLog) :
        /\ Converting(j) /\ jobLog[j].settled
        /\ CallNames(j) = <<"writeFile", "deleteInput">>
        /\ ~jobLog[j].calls[1].ok
        /\ jobLog[j].error = "write"

\* C20: with an unregistered format selected, compressSingleFile starts no job (no
\* engine call), a batch records the file as failed and goes on, and
\* compressSingleFileWithRetry makes one attempt and throws without waiting
C20_UnknownFormatNotRetried ==
    /\ ~Registered(sel.format) => \A j \in 1..Len(jobLog) : jobLog[j].fn # "compressSingleFile"
    /\ \A p \in Procs :
          /\ Batch(p) =>
                \A k \in 1..Len(procs[p].errors) :
                    procs[p].errors[k].error = "TypeError" => procs[p].errors[k].attempts = 1
          /\ (Batch(p) /\ ~Registered(sel.format)) =>
                Done(p) /\ Len(procs[p].errors) = Len(procs[p].files)
          /\ (Retry(p) /\ ~Registered(sel.format)) =>
                /\ procs[p].attempts = 1
                /\ Done(p) /\ procs[p].outcome = "thrown"
                /\ procs[p].value = Str("TypeError")

Probe(p) == procs[p].op \in ProbeFns
\* probe p was called after every other invocation had finished, and returned Metadata
ProbedAfterOthers(p) ==
    /\ Probe(p) /\ Done(p)
    /\ procs[p].outcome = "returned" /\ procs[p].value = Str("metadata")
    /\ procs[p].after = Procs \ {p}

\* C16: the Metadata a probe returns, when it ran after the other invocation had
\* finished, is what the extractor finds in the text the probe's own exec appended to
\* the log: nothing of it comes from an earlier line
C16_OwnLogSegmentOnly ==
    \A p \in Procs :
        ProbedAfterOthers(p) =>
            procs[p].metadata = parseMetadata(jobLog[procs[p].jid].emitted)

ExecRejected(j) ==
    \E k \in 1..Len(jobLog[j].calls) : jobLog[j].calls[k].call = "exec" /\ ~jobLog[j].calls[k].ok

PartValue(part) ==
    IF part \in {<<"44100", " Hz">>, <<"stereo">>, <<"mono">>, <<"2", " channels">>,
                 <<"192", " kbps">>, <<"192.5", " kbps">>}
    THEN part
    ELSE IF part = <<"Duration: ", "00:03:21.45">> THEN Str("00:03:21.45")
    ELSE Unknown
AllUnknown(metadata) == \A f \in Fields : metadata[f] = Unknown

\* C18: applied to any log text, parseMetadata returns an object with exactly the
\* fields duration, sampleRate, channels and bitrate, each a non-empty string; for
\* the empty text, and for a text none of whose parts has a form the patterns
\* match, every field is the unknown marker
C18_ParseMetadataTotal ==
    extracted.fn # "none" =>
        /\ DOMAIN extracted.metadata = Fields
        /\ \A f \in Fields : extracted.metadata[f] # EmptyStr
        /\ extracted.logs = <<>> => AllUnknown(extracted.metadata)
        /\ (extracted.kind = "parts"
                /\ \A f \in Fields : PartValue(extracted.parts[f]) = Unknown)
             => AllUnknown(extracted.metadata)

\* a text with 'Duration: N/A', a bare number, '5.1' and 'kb/s' gives all-unknown
C18_Witness ==
    /\ extracted.fn = "parseMetadata"
    /\ extracted.kind = "parts"
    /\ extracted.parts.duration = <<"Duration: ", "N/A">>
    /\ extracted.parts.sampleRate = <<"44100">>
    /\ extracted.parts.channels = <<"5.1">>
    /\ extracted.parts.bitrate = <<"192", " kb/s">>
    /\ AllUnknown(extracted.metadata)

\* 'Duration: 00:03:21.45, ... 44100 Hz, stereo, 192 kbps'
ScenarioText ==
    <<"Duration: ", "00:03:21.45", ", ", "... ", "44100", " Hz", ", ", "stereo", ", ",
      "192", " kbps">>

\* C19: each field of the Metadata is the value of its own part of the text when
\* that part is present, and the unknown marker when it is not, whatever the other
\* three parts are; the scenario text gives 00:03:21.45, 44100 Hz, stereo, 192 kbps
C19_IndependentExtractions ==
    (extracted.fn # "none" /\ extracted.kind = "parts") =>
        /\ \A f \in Fields : extracted.metadata[f] = PartValue(extracted.parts[f])
        /\ extracted.logs = ScenarioText =>
              extracted.metadata = [duration |-> Str("00:03:21.45"),
                                    sampleRate |-> <<"44100", " Hz">>,
                                    channels |-> Str("stereo"),
                                    bitrate |-> <<"192", " kbps">>]

\* only the sample rate and the bitrate are present, in the order bitrate first
C19_Witness ==
    /\ extracted.fn = "parseMetadata"
    /\ extracted.kind = "parts"
    /\ extracted.parts.order = "backward"
    /\ extracted.parts.duration = <<>>
    /\ extracted.parts.channels = <<>>
    /\ extracted.metadata = [duration |-> Unknown, sampleRate |-> <<"44100", " Hz">>,
                             channels |-> Unknown, bitrate |-> <<"192.5", " kbps">>]

\* the command compressSingleFile builds for file when the format id and the
\* selector values s are read once and used throughout
ProfileCommand(file, id, s) ==
    compressSingleFileCommand(InputKey(file), formatConfig[id], OutputKey(formatConfig[id]),
                              Str(id), s.ac, s.ar, s.ba)

\* C21: every job of one compressMultipleFiles call is converted with the format,
\* channels, sample rate and bitrate selected when the batch was called, whatever
\* the user selects while it runs
C21_BatchStartSelection ==
    \A p \in Procs :
        Batch(p) /\ JobsOf(p) # {} =>
            /\ Registered(procs[p].selected.format)
            /\ procs[p].command # <<>> =>
                   procs[p].command = ProfileCommand(procs[p].file,
                                                     procs[p].selected.format[1],
                                                     procs[p].selected)

\* C30: the codec, the bitrate decision, the format-specific arguments and the
\* output name of a compressSingleFile command come from one format profile
C30_OneProfilePerCommand ==
    \A p \in Procs :
        procs[p].fn = "compressSingleFile" /\ procs[p].command # <<>> =>
            \E id \in FormatIds, s \in PageSelections :
                procs[p].command = ProfileCommand(procs[p].file, id, s)

\* the names of the files whose job failed, joined as the page lists them
RECURSIVE FailedNames(_)
FailedNames(errors) ==
    IF errors = <<>> THEN <<>>
    ELSE IF Len(errors) = 1 THEN Head(errors).file
    ELSE Head(errors).file \o <<", ">> \o FailedNames(Tail(errors))

PostedBy(p, text, type) == \E i \in DOMAIN app.status : app.status[i] = Status(p, text, type)

\* C22: when at least one file was selected and compressSelectedFiles has finished,
\* a batch without failed jobs is reported as a success: the success status with
\* the number of converted files is posted, the download area holds the successful
\* results and the generic failure status is not posted; when jobs failed, the
\* names of the failed files are listed.
C22_SuccessReported ==
    \A p \in Procs :
        (app.run[p] = "done" /\ procs[p].op = "compressMultipleFiles"
         /\ Len(procs[p].files) > 0)
        => /\ procs[p].errors = <<>>
              => /\ PostedBy(p, <<"Processed ", Decimal(Len(procs[p].results)), " files">>,
                             "success")
                 /\ app.download = procs[p].results
                 /\ ~PostedBy(p, Str("File processing failed"), "error")
           /\ procs[p].errors # <<>>
              => PostedBy(p, <<"Some files failed: ">> \o FailedNames(procs[p].errors),
                          "error")

\* C23: whenever a call of compressSelectedFiles has finished (early return, batch
\* completed, or error caught), the loading indicator carries the 'hidden' class.
C23_IndicatorHiddenAfterCall ==
    \A p \in Procs : app.run[p] = "done" => app.hidden

\* C24: the handlers are registered only once the engine is loaded, and no
\* conversion starts before; when loadFFmpeg failed no handler is registered, the
\* initialization-error status is shown and no engine call has been issued.
C24_NoConversionBeforeLoad ==
    /\ app.handlers # {} => app.engine = "loaded"
    /\ app.engine # "loaded"
       => /\ jobLog = <<>>
          /\ \A p \in Procs : procs[p].op = "idle" /\ app.run[p] = "none"
    /\ app.engine = "failed"
       => /\ app.handlers = {}
          /\ app.status = <<InitFailedStatus>>

C24_Witness ==
    /\ app.engine = "failed"
    /\ app.handlers = {}
    /\ app.status = <<InitFailedStatus>>
    /\ logEl = log(log(log(<<>>, Str("Loading FFmpeg...")), Str("Loading FFmpeg core...")),
                   <<"FFmpeg load failed: ", "load">>)

\* C25: cleanupFFmpeg never throws; it issues an unlink for an entry only when the
\* name starts with 'input.' or 'output.', and once it has returned after a listing
\* it has issued one for every such entry, whether or not an earlier unlink failed;
\* the entries whose unlink succeeded are gone, every other entry is still there;
\* without an engine it issues no call and changes nothing.
C25_CleanupUnlinksTemporaries ==
    LET attempted == cleanup.unlinked \cup cleanup.rejected
        before == DOMAIN cleanup.dir
    IN  /\ cleanup.outcome \in {"none", "returned"}
        /\ \A n \in attempted : n \in before /\ IsTemporary(n)
        /\ \A n \in attempted : startsWith(n, <<"input", Dot>>)
                                  \/ startsWith(n, <<"output", Dot>>)
        /\ cleanup.pc # "idle" => DOMAIN fs = before \ cleanup.unlinked
        /\ cleanup.pc = "done"
           => /\ app.engine = "none" => cleanup.calls = <<>> /\ fs = cleanup.dir
              /\ cleanup.files # <<>>
                 => attempted = {n \in before : startsWith(n, <<"input", Dot>>)
                                                \/ startsWith(n, <<"output", Dot>>)}

C25_Witness ==
    /\ cleanup.pc = "done"
    /\ cleanup.rejected = {<<"input", Dot, "mp3">>}
    /\ cleanup.unlinked = {<<"output", Dot, "wav">>}
    /\ cleanup.calls[Len(cleanup.calls)] = <<"unlink", <<"output", Dot, "wav">>>>
    /\ DOMAIN fs = {<<"input", Dot, "mp3">>, <<"notes", Dot, "txt">>}

\* C26: for the same file, format identifier and channels, sample rate and bitrate
\* options (and no compressionLevel option), compressSingleFile, convertAudioFormat
\* and createFFmpegCommand build the same argument vector: whichever builder was
\* applied, its command is the one the other two build.
C26_BuildersAgree ==
    (built.fn # "none" /\ built.format = sel.format /\ built.compressionLevel = Undefined)
    => LET profile == formatConfig[built.format[1]]
       IN  /\ built.command = compressSingleFileCommand(
                                  InputKey(built.file), profile, OutputKey(profile),
                                  sel.format, sel.ac, sel.ar, sel.ba)
           /\ built.command = convertAudioFormatCommand(
                                  InputKey(built.file), profile, OutputKey(profile),
                                  built.format, BuiltConvertOptions)
           /\ built.command = createFFmpegCommand(InputKey(built.file), BuiltCreateOptions)

\* C28: parseAudioMetadata never throws.  When writeFile failed it issued no other
\* engine call and returned null; otherwise it issued writeFile, exec and the delete
\* of its input and returned a Metadata parsed from the log after its offset, the
\* same whether the delete succeeded or not; when the delete succeeded no buffer
\* written by the probe is left in the workspace.
C28_ProbeReturnsNullOrMetadata ==
    \A j \in 1..Len(jobLog) :
        jobLog[j].fn = "parseAudioMetadata" =>
            LET r == procs[jobLog[j].proc]
            IN  /\ r.outcome # "thrown"
                /\ jobLog[j].settled =>
                      /\ r.outcome = "returned"
                      /\ ~jobLog[j].calls[1].ok =>
                            /\ CallNames(j) = <<"writeFile">>
                            /\ r.value = Str("null")
                      /\ jobLog[j].calls[1].ok =>
                            /\ CallNames(j) = <<"writeFile", "exec", "deleteInput">>
                            /\ r.value = Str("metadata")
                            /\ \A f \in Fields : r.metadata[f] # EmptyStr
                            /\ \E n \in r.prevLogLength..Len(logEl) :
                                  r.metadata =
                                     parseMetadata(SubSeq(logEl, r.prevLogLength + 1, n))
                            /\ jobLog[j].calls[3].ok => \A n \in DOMAIN fs : fs[n] # j

C28_Witness ==
    \E j \in 1..Len(jobLog) :
        /\ jobLog[j].fn = "parseAudioMetadata"
        /\ jobLog[j].settled
        /\ CallNames(j) = <<"writeFile", "exec", "deleteInput">>
        /\ ~jobLog[j].calls[3].ok
        /\ procs[jobLog[j].proc].outcome = "returned"
        /\ procs[jobLog[j].proc].value = Str("metadata")
        /\ procs[jobLog[j].proc].metadata.channels = Str("mono")

HasBitrateArgument(command, bitrate) ==
    \E k \in 1..(Len(command) - 1) : command[k] = Str("-b:a") /\ command[k + 1] = bitrate

\* C27: compressAudioBitrate on a file whose extension is unregistered or has
\* supportsBitrate = false has thrown without starting a job, no engine call
\* issued and the workspace as it was; on a format with supportsBitrate = true it
\* runs a conversion to the file's own format, and the command built for a given
\* bitrate contains '-b:a' followed by that bitrate.
C27_BitrateOnlyOnLossy ==
    \A p \in Procs :
        procs[p].op = "compressAudioBitrate" =>
            LET r == procs[p]
                format == getFileExtension(r.file)
            IN  /\ (~Registered(format) \/ ~formatConfig[format[1]].supportsBitrate)
                   => /\ r.pc = "done" /\ r.outcome = "thrown"
                      /\ r.jid = 0 /\ jobLog = <<>> /\ fs = <<>>
                /\ (Registered(format) /\ formatConfig[format[1]].supportsBitrate)
                   => /\ r.jid # 0
                      /\ jobLog[r.jid].fn = "convertAudioFormat"
                      /\ r.format = format
                      /\ r.outputName = <<"output", Dot>> \o formatConfig[format[1]].ext
                      /\ (r.command # <<>> /\ Truthy(r.options.bitrate))
                         => HasBitrateArgument(r.command, r.options.bitrate)
                      /\ (r.pc = "done" /\ jobLog[r.jid].calls[1].ok)
                         => r.command # <<>>

C27_Witness ==
    /\ procs[1].op = "compressAudioBitrate"
    /\ procs[1].file = <<"mp3">>
    /\ procs[1].pc = "done" /\ procs[1].outcome = "returned"
    /\ procs[1].command = <<Str("-i"), <<"input", Dot, "mp3">>, Str("-b:a"), Str("64k"),
                            Str("-acodec"), Str("libmp3lame"), <<"output", Dot, "mp3">>>>

\* C29: within a job that converts, the input key and the output key are different
\* names, whatever the file is called and whatever the target format is; the
\* command reads one and writes the other.
C29_InputKeyIsNotOutputKey ==
    \A j \in 1..Len(jobLog) :
        Converting(j) =>
            /\ jobLog[j].inputName # jobLog[j].outputName
            /\ LET r == procs[jobLog[j].proc]
               IN  (r.jid = j /\ r.command # <<>>)
                   => /\ r.command[2] = jobLog[j].inputName
                      /\ Last(r.command) = jobLog[j].outputName
                      /\ r.command[2] # Last(r.command)

C29_Witness ==
    \E j \in 1..Len(jobLog) :
        /\ Converting(j) /\ jobLog[j].settled
        /\ procs[jobLog[j].proc].file = <<"Song", Dot, "WAV">>
        /\ jobLog[j].inputName = <<"input", Dot, "wav">>
        /\ jobLog[j].outputName = <<"output", Dot, "wav">>
        /\ CallNames(j) = <<"writeFile", "exec", "readFile", "deleteInput", "deleteOutput">>
        /\ \A k \in 1..5 : jobLog[j].calls[k].ok

\* the attempts of a retried call that went to the engine, oldest first
AttemptErrors(p) ==
    LET js == JobsOf(p)
    IN  [k \in 1..Cardinality(js) |->
            jobLog[CHOOSE j \in js : Cardinality({i \in js : i <= j}) = k].error]

\* what a call of compressSingleFileWithRetry has done so far
RetryState(p) ==
    LET r == procs[p]
    IN  /\ r.maxRetries >= 0
        /\ r.outcome \in {"none", "returned", "thrown"}
        /\ Done(p) <=> r.outcome # "none"
        /\ r.attempts <= r.maxRetries + 1
        /\ (Done(p) /\ r.outcome = "returned")
              => /\ r.attempts = Len(r.fails) + 1
                 /\ r.value # Undefined /\ r.value = r.result
                 /\ jobLog[r.jid].settled /\ jobLog[r.jid].error = "none"
                 /\ r.jid = Len(jobLog)
                 /\ \A j \in JobsOf(p) \ {r.jid} : jobLog[j].settled /\ jobLog[j].error # "none"
        /\ (Done(p) /\ r.outcome = "thrown")
              => /\ r.attempts = r.maxRetries + 1
                 /\ Len(r.fails) = r.maxRetries + 1
                 /\ r.value = Str(Last(r.fails))
                 /\ \A j \in JobsOf(p) : jobLog[j].settled /\ jobLog[j].error # "none"
                 /\ JobsOf(p) # {} => AttemptErrors(p) = r.fails
        /\ r.pc = "delay"
              => /\ Len(r.fails) = r.attempt + 1
                 /\ r.attempts = r.attempt + 1
                 /\ r.attempt < r.maxRetries
                 /\ Last(r.fails) # "none"

\* a step of a call of compressSingleFileWithRetry: the delay starts when an attempt
\* has just failed, and ends with the start of the next attempt; a call that has
\* ended takes no step
RetryStep(p) ==
    LET r == procs[p]
        n == procs'[p]
    IN  (Retry(p) /\ n # r)
        => /\ ~Done(p)
           /\ n.pc = "delay" => Len(n.fails) = Len(r.fails) + 1 /\ Last(n.fails) # "none"
           /\ r.pc = "delay" => n.attempts = r.attempts + 1 /\ n.attempt = r.attempt + 1
           /\ n.attempts > r.attempts => r.pc = "delay"

\* C31: for every maxRetries >= 0 a call of compressSingleFileWithRetry ends by
\* returning the result of its first successful attempt, with no engine call after
\* it, or by throwing the error of attempt maxRetries + 1; the delay is taken only
\* after a failed attempt that is followed by another attempt.
C31_RetryEndsOneOfTwoWays ==
    /\ [](\A p \in Procs : Retry(p) => RetryState(p))
    /\ [][\A p \in Procs : RetryStep(p)]_vars
    /\ [][\A p \in Procs : (Retry(p) /\ Done(p))
                               => \A j \in JobsOf(p) : jobLog'[j] = jobLog[j]]_vars

C31_Witness ==
    /\ Retry(1) /\ Done(1)
    /\ procs[1].maxRetries = 2
    /\ procs[1].fails = <<"write", "exec", "read">>
    /\ procs[1].outcome = "thrown"
    /\ procs[1].value = Str("read")
    /\ procs[1].attempts = 3

\* the tokens of the engine messages in which 'error', 'warning', 'Output' or
\* 'Input' occurs, as the token itself or inside it
KeywordTokens ==
    {"error", "warning", "Output", "Input", "I/O error", "Outputting", "warnings", "Inputs"}

============================================================================
